---- MODULE Spec2Model ----
(***************************************************************************)
(* A model of the NOVA three-layer engine of                               *)
(* src/predictive_coding/02_predcod_nova.py (ReactiveLayer,                *)
(* ResponsiveLayer, ReflectiveLayer, VirtualHuman), of its earlier variant *)
(* 02_pc_nova_demo.py, of NOVA and main in 03_kafka_nova_poc.py, of        *)
(* PredictiveCodingNetwork in 01_predictive_coding.py and of               *)
(* LearningHistory in src/virtual_human/learning_history.py.               *)
(*                                                                         *)
(* Numbers.  The program computes in binary floating point.  The model     *)
(* computes in decimal fixed point: a signal value, an estimate, an error, *)
(* a mean or a standard deviation x is held as the integer x * Scale,      *)
(* rounded to the nearest unit; a learning rate r is held as               *)
(* r * Scale * Scale, which makes base_rate * (1 + std) exact.  The        *)
(* float values NaN, +inf and -inf are kept as separate kinds of number,   *)
(* with the comparisons IEEE-754 gives them.                               *)
(***************************************************************************)
EXTENDS Integers, Sequences, FiniteSets, TLC

VARIABLES
    emotional_state,      \* ReactiveLayer.emotional_state
    prediction_error,     \* ReactiveLayer.prediction_error
    recent_errors,        \* ReactiveLayer.recent_errors
    context_window,       \* ResponsiveLayer.context_window
    current_state,        \* ResponsiveLayer.current_state
    interaction_history,  \* ReflectiveLayer.interaction_history
    min_samples,          \* ReflectiveLayer.min_samples
    learning_history,     \* the LearningHistory object of virtual_human/learning_history.py
    interaction_count,    \* VirtualHuman.interaction_count
    in_flight,            \* per caller: where its call of process_interaction stands, and its locals
    producer,             \* 03_kafka_nova_poc.py: per NOVA layer, the messages its Kafka producer holds unsent
    nodes,                \* 01_predictive_coding.py: PredictiveCodingNetwork.nodes, one record per node
    tasks,                \* 03_kafka_nova_poc.py: process_message, the coroutine of each layer and the loop's position
    kafka,                \* 03_kafka_nova_poc.py: main, its position and the Kafka clients of each layer
    last,                 \* the most recent call: its inputs, the state it started from, its outcome
    prev                  \* the call before the most recent one

vars == <<emotional_state, prediction_error, recent_errors, context_window,
          current_state, interaction_history, min_samples, learning_history,
          interaction_count, in_flight, producer, nodes, tasks, kafka, last, prev>>

\* The fixed-point unit: 0.001.
Scale == 10 * 10 * 10

\* ReactiveLayer.__init__ defaults
BaseLearningRate == 300
MemorySize == 5
\* ResponsiveLayer.__init__ default
ContextWindowSize == 10
\* ReflectiveLayer.__init__ defaults
MinSamples == 5
VolatilityThreshold == 300
\* the confidence VirtualHuman.process_interaction gives every signal (0.9)
SignalConfidence == 900

-----------------------------------------------------------------------------
(* Arithmetic *)

Abs(x) == IF x < 0 THEN -x ELSE x

Min(a, b) == IF a <= b THEN a ELSE b

Max(a, b) == IF a >= b THEN a ELSE b

\* a / b for b > 0, rounded to the nearest integer (ties away from zero)
RoundDiv(a, b) ==
    IF a >= 0 THEN (a + b \div 2) \div b
              ELSE -(((-a) + b \div 2) \div b)

RECURSIVE SqrtSearch(_, _, _)
\* the largest r in lo..hi with r * r <= n
SqrtSearch(n, lo, hi) ==
    IF lo >= hi THEN lo
    ELSE LET mid == (lo + hi + 1) \div 2
         IN  IF mid * mid <= n THEN SqrtSearch(n, mid, hi)
                               ELSE SqrtSearch(n, lo, mid - 1)

\* the square root of n >= 0, rounded to the nearest integer
Sqrt(n) ==
    LET r == SqrtSearch(n, 0, Min(n, 46340))
    IN  IF n - r * r > r THEN r + 1 ELSE r

RECURSIVE Sum(_)
Sum(xs) == IF xs = <<>> THEN 0 ELSE Head(xs) + Sum(Tail(xs))

RECURSIVE SumSq(_)
SumSq(xs) == IF xs = <<>> THEN 0 ELSE Head(xs) * Head(xs) + SumSq(Tail(xs))

\* numpy.mean of a non-empty list
NpMean(xs) == RoundDiv(Sum(xs), Len(xs))

\* numpy.std of a non-empty list: the population standard deviation
\* sqrt(sum((x - mean)^2) / n) = sqrt(n * sum(x^2) - sum(x)^2) / n
NpStd(xs) ==
    LET n == Len(xs)
    IN  RoundDiv(Sqrt(n * SumSq(xs) - Sum(xs) * Sum(xs)), n)

\* numpy.clip
NpClip(x, lo, hi) == IF x < lo THEN lo ELSE IF x > hi THEN hi ELSE x

\* the slice xs[-n:]: the last n elements for n > 0, the whole sequence for
\* n = 0 (xs[-0:] is xs[0:]), the sequence without its first -n elements for n < 0
LastN(xs, n) ==
    IF n > 0 THEN (IF Len(xs) <= n THEN xs ELSE SubSeq(xs, Len(xs) - n + 1, Len(xs)))
    ELSE IF -n >= Len(xs) THEN <<>>
    ELSE SubSeq(xs, 1 - n, Len(xs))

-----------------------------------------------------------------------------
(* Floating-point inputs: a finite number (in units of 1/Scale), NaN or an infinity *)

Fin(v) == [k |-> "fin", v |-> v]
NaN == [k |-> "nan", v |-> 0]
PosInf == [k |-> "inf", v |-> 1]
NegInf == [k |-> "inf", v |-> -1]

\* a <= x for a finite constant a and a float x
ConstLeFloat(a, x) ==
    CASE x.k = "nan" -> FALSE
      [] x.k = "inf" -> x.v > 0
      [] OTHER -> a <= x.v

\* x <= a for a float x and a finite constant a
FloatLeConst(x, a) ==
    CASE x.k = "nan" -> FALSE
      [] x.k = "inf" -> x.v < 0
      [] OTHER -> x.v <= a

-----------------------------------------------------------------------------
(* SocialSignal *)

\* SocialSignal.__post_init__ with the range check written as
\* `value < -1 or value > 1`, which NaN passes (as 0 here)
SocialSignalInitNaNPasses(value, confidence, number) ==
    IF value.k # "nan" /\ ~(ConstLeFloat(-Scale, value) /\ FloatLeConst(value, Scale))
    THEN [ok |-> FALSE, exc |-> "ValueError: Signal value must be between -1 and 1"]
    ELSE [ok |-> TRUE,
          signal |-> [value |-> value.v, confidence |-> confidence,
                      interaction_number |-> number]]

\* SocialSignal.__post_init__ without the check of the value's range
SocialSignalInitNoRange(value, confidence, number) ==
    IF value.k # "fin"
    THEN [ok |-> FALSE, exc |-> "ValueError: Signal value must be between -1 and 1"]
    ELSE [ok |-> TRUE,
          signal |-> [value |-> value.v, confidence |-> confidence,
                      interaction_number |-> number]]

\* SocialSignal.__post_init__: the range checks `not -1 <= value <= 1` and
\* `not 0 <= confidence <= 1`, each raising ValueError.  A comparison with NaN
\* is false, so NaN fails the first check.
SocialSignalInit(value, confidence, number) ==
    IF ~(ConstLeFloat(-Scale, value) /\ FloatLeConst(value, Scale))
    THEN [ok |-> FALSE, exc |-> "ValueError: Signal value must be between -1 and 1"]
    ELSE IF ~(0 <= confidence /\ confidence <= Scale)
    THEN [ok |-> FALSE, exc |-> "ValueError: Confidence must be between 0 and 1"]
    ELSE [ok |-> TRUE,
          signal |-> [value |-> value.v, confidence |-> confidence,
                      interaction_number |-> number]]

-----------------------------------------------------------------------------
(* ReactiveLayer.  Its state is the record                                  *)
(* [emotional_state, prediction_error, recent_errors].                      *)
(* A fault is the line of process_signal at which an exception is raised    *)
(* (0: none): 122 time.sleep, 128 the call of _update_error_history,        *)
(* 129 numpy.std inside _adaptive_learning_rate.                            *)

ReactiveFaults == {122, 128, 129}

\* _adaptive_learning_rate with the volatility slowing the rate down
AdaptiveLearningRateDamped(errors) ==
    IF Len(errors) > 0
    THEN BaseLearningRate * (Scale - NpStd(errors))
    ELSE BaseLearningRate * Scale

\* ReactiveLayer._adaptive_learning_rate, in units of 1/(Scale*Scale)
AdaptiveLearningRate(errors) ==
    IF Len(errors) > 0
    THEN BaseLearningRate * (Scale + NpStd(errors))
    ELSE BaseLearningRate * Scale

\* _update_error_history without the pop(0) past memory_size
UpdateErrorHistoryNoEvict(errors, error) == Append(errors, error)

\* ReactiveLayer._update_error_history
UpdateErrorHistory(errors, error) ==
    LET appended == Append(errors, error)
    IN  IF Len(appended) > MemorySize THEN Tail(appended) ELSE appended

\* lines 131-132 of process_signal with the update subtracted instead of added
UpdateEstimateAway(estimate, learning_rate, error) ==
    NpClip(estimate - RoundDiv(learning_rate * error, Scale * Scale), -Scale, Scale)

\* lines 131-132 of process_signal: delta = learning_rate * error, then the clipped sum
UpdateEstimate(estimate, learning_rate, error) ==
    NpClip(estimate + RoundDiv(learning_rate * error, Scale * Scale), -Scale, Scale)

\* the dictionary the except clause of process_signal returns
ReactiveFallback(st) ==
    [emotion |-> st.emotional_state,
     prediction_error |-> 0,
     learning_rate |-> BaseLearningRate * Scale,
     attention |-> Scale,
     response_time |-> 50]

\* process_signal without its except clause: the exception leaves the layer
ReactiveNotCaught(st) ==
    [state |-> st, raised |-> TRUE, escaped |-> TRUE, out |-> ReactiveFallback(st)]

\* the except clause of process_signal, entered with the layer in state st:
\* the exception is caught and the fallback dictionary is returned
ReactiveCaught(st) ==
    [state |-> st, raised |-> TRUE, escaped |-> FALSE, out |-> ReactiveFallback(st)]

\* ReactiveLayer.process_signal
ProcessSignal(st, signal, fault) ==
    LET error == signal.value - st.emotional_state
        s1 == [st EXCEPT !.prediction_error = error]
        s2 == [s1 EXCEPT !.recent_errors = UpdateErrorHistory(@, error)]
        learning_rate == AdaptiveLearningRate(s2.recent_errors)
        s3 == [s2 EXCEPT !.emotional_state = UpdateEstimate(@, learning_rate, error)]
    IN  CASE fault = 122 -> ReactiveCaught(st)
          [] fault = 128 -> ReactiveCaught(s1)
          [] fault = 129 -> ReactiveCaught(s2)
          [] OTHER ->
               [state |-> s3, raised |-> FALSE, escaped |-> FALSE,
                out |-> [emotion |-> s3.emotional_state,
                         prediction_error |-> s3.prediction_error,
                         learning_rate |-> learning_rate,
                         attention |-> Scale,
                         response_time |-> 50]]

-----------------------------------------------------------------------------
(* EmotionalMomentum: the record [history, momentum, volatility] *)

EmotionalMomentumInit == [history |-> <<>>, momentum |-> 0, volatility |-> 0]

\* EmotionalMomentum.update
MomentumUpdate(m, value) ==
    LET appended == Append(m.history, value)
        history == IF Len(appended) > 5 THEN Tail(appended) ELSE appended
        n == Len(history)
        momentum == IF n >= 2
                    THEN RoundDiv(7 * m.momentum + 3 * (history[n] - history[n - 1]), 10)
                    ELSE m.momentum
        volatility == IF n >= 3 THEN NpStd(history) ELSE m.volatility
    IN  [history |-> history, momentum |-> momentum, volatility |-> volatility]

RECURSIVE MomentumOf(_, _)
\* the loop `for val in recent_values: momentum.update(val)`
MomentumOf(m, values) ==
    IF values = <<>> THEN m
    ELSE MomentumOf(MomentumUpdate(m, Head(values)), Tail(values))

-----------------------------------------------------------------------------
(* ResponsiveLayer.  Its state is the record [context_window, current_state]. *)
(* Faults: 246 time.sleep, 252 numpy inside _analyze_engagement_pattern,      *)
(* 254 numpy.mean / numpy.random.choice after the state was stored.           *)

ResponsiveFaults == {246, 252, 254}

InteractionState ==
    {"building_rapport", "maintaining_engagement", "recovering_attention",
     "deepening_interaction", "emotional_transition", "recalibrating", "flow_state"}

\* the decision of _analyze_engagement_pattern with the flow-state rule tried
\* before the momentum rule
ClassifyStatsFlowFirst(size, momentum, trend, recent_volatility) ==
    IF size < 3 THEN "building_rapport"
    ELSE IF trend > 600 /\ recent_volatility < 200 THEN "flow_state"
    ELSE IF Abs(momentum) > 500 THEN "emotional_transition"
    ELSE IF recent_volatility > 400
         THEN (IF Abs(trend) < 200 THEN "recalibrating" ELSE "recovering_attention")
    ELSE IF trend > 300 /\ recent_volatility < 300 THEN "deepening_interaction"
    ELSE IF trend < -200 THEN "recovering_attention"
    ELSE "maintaining_engagement"

\* the decision of _analyze_engagement_pattern with `trend >= 0.6` for the flow state
ClassifyStatsFlowAtThreshold(size, momentum, trend, recent_volatility) ==
    IF size < 3 THEN "building_rapport"
    ELSE IF Abs(momentum) > 500 THEN "emotional_transition"
    ELSE IF trend >= 600 /\ recent_volatility < 200 THEN "flow_state"
    ELSE IF recent_volatility > 400
         THEN (IF Abs(trend) < 200 THEN "recalibrating" ELSE "recovering_attention")
    ELSE IF trend > 300 /\ recent_volatility < 300 THEN "deepening_interaction"
    ELSE IF trend < -200 THEN "recovering_attention"
    ELSE "maintaining_engagement"

\* the decision of _analyze_engagement_pattern with the deepening rule tried
\* before the flow-state rule
ClassifyStatsDeepeningFirst(size, momentum, trend, recent_volatility) ==
    IF size < 3 THEN "building_rapport"
    ELSE IF Abs(momentum) > 500 THEN "emotional_transition"
    ELSE IF trend > 300 /\ recent_volatility < 300 THEN "deepening_interaction"
    ELSE IF trend > 600 /\ recent_volatility < 200 THEN "flow_state"
    ELSE IF recent_volatility > 400
         THEN (IF Abs(trend) < 200 THEN "recalibrating" ELSE "recovering_attention")
    ELSE IF trend < -200 THEN "recovering_attention"
    ELSE "maintaining_engagement"

\* lines 163-164 and 175-195 of _analyze_engagement_pattern: the decision on the
\* number of samples and the statistics, first match first
ClassifyStats(size, momentum, trend, recent_volatility) ==
    IF size < 3 THEN "building_rapport"
    ELSE IF Abs(momentum) > 500 THEN "emotional_transition"
    ELSE IF trend > 600 /\ recent_volatility < 200 THEN "flow_state"
    ELSE IF recent_volatility > 400
         THEN (IF Abs(trend) < 200 THEN "recalibrating" ELSE "recovering_attention")
    ELSE IF trend > 300 /\ recent_volatility < 300 THEN "deepening_interaction"
    ELSE IF trend < -200 THEN "recovering_attention"
    ELSE "maintaining_engagement"

\* [s.value for s in window]
ValuesOf(window) == [i \in 1..Len(window) |-> window[i].value]

\* ResponsiveLayer._analyze_engagement_pattern
AnalyzeEngagementPattern(window) ==
    IF Len(window) < 3 THEN ClassifyStats(Len(window), 0, 0, 0)
    ELSE LET recent_values == ValuesOf(LastN(window, 3))
             momentum == MomentumOf(EmotionalMomentumInit, recent_values)
             trend == NpMean(recent_values)
         IN  ClassifyStats(Len(window), momentum.momentum, trend, momentum.volatility)

\* the table of ResponsiveLayer._generate_response
Responses(state) ==
    CASE state = "building_rapport" ->
           <<"I notice we're just getting started. What interests you most?",
             "Let's explore this together at your pace.",
             "I'm here to help - what would you like to focus on?">>
      [] state = "maintaining_engagement" ->
           <<"You seem engaged. Shall we dig deeper?",
             "We're making good progress here.",
             "This is going well. What aspects intrigue you most?">>
      [] state = "recovering_attention" ->
           <<"Let's try approaching this from a different angle.",
             "I notice some uncertainty. What would help clarify things?",
             "Sometimes a quick recap helps - would that be useful?",
             "No worries, we can take a step back if needed.">>
      [] state = "deepening_interaction" ->
           <<"You're really getting this! Ready for some advanced concepts?",
             "Your engagement is fantastic. Let's explore some nuances.",
             "This is clicking well. Want to tackle some challenging aspects?">>
      [] state = "emotional_transition" ->
           <<"I notice things are shifting. Let's adjust our pace.",
             "Interesting change in direction! How are you feeling about this?",
             "Let's take a moment to find our bearings.",
             "Sometimes changes lead to the best insights!">>
      [] state = "recalibrating" ->
           <<"Let's take a breath and see where we are.",
             "Maybe we should check our heading - what feels unclear?",
             "Sometimes uncertainty is where the magic happens!",
             "No rush - we can find our way together.">>
      [] state = "flow_state" ->
           <<"We're in the zone! This is fantastic progress.",
             "Everything's clicking beautifully. Shall we explore further?",
             "This is that sweet spot of perfect engagement!",
             "Love how we're vibing with this material!">>

\* _generate_response drawing from the FlowState candidates whatever the state
GenerateResponseFromFlow(state, pick) ==
    Responses("flow_state")[IF pick <= Len(Responses(state)) THEN pick ELSE 1]

\* ResponsiveLayer._generate_response: numpy.random.choice draws candidate `pick`
GenerateResponse(state, pick) == Responses(state)[pick]

\* the dictionary the except clause of process_context returns
ResponsiveFallback(reactive_output) ==
    [predicted_next |-> reactive_output.emotion,
     response |-> "Let's continue our discussion.",
     state |-> "building_rapport",
     context_confidence |-> 500]

\* the window update without the eviction of the oldest signal
PushContextNoEvict(window, signal) == Append(window, signal)

\* the two statements of process_context that update the window
PushContext(window, signal) ==
    LET appended == Append(window, signal)
    IN  IF Len(appended) > ContextWindowSize THEN Tail(appended) ELSE appended

\* the except clause of process_context, entered with the layer in state st
ResponsiveCaught(st, reactive_output) ==
    [state |-> st, raised |-> TRUE, escaped |-> FALSE,
     out |-> ResponsiveFallback(reactive_output)]

\* ResponsiveLayer.process_context
ProcessContext(st, signal, reactive_output, fault, pick) ==
    LET s1 == [st EXCEPT !.context_window = PushContext(@, signal)]
        s2 == [s1 EXCEPT !.current_state = AnalyzeEngagementPattern(s1.context_window)]
        context_pattern == NpMean(ValuesOf(s2.context_window))
        predicted_next == RoundDiv(8 * context_pattern + 2 * reactive_output.emotion, 10)
    IN  CASE fault = 246 -> ResponsiveCaught(st, reactive_output)
          [] fault = 252 -> ResponsiveCaught(s1, reactive_output)
          [] fault = 254 -> ResponsiveCaught(s2, reactive_output)
          [] OTHER ->
               [state |-> s2, raised |-> FALSE, escaped |-> FALSE,
                out |-> [predicted_next |-> predicted_next,
                         response |-> GenerateResponse(s2.current_state, pick),
                         state |-> s2.current_state,
                         context_confidence |->
                             RoundDiv(Len(s2.context_window) * Scale, ContextWindowSize)]]

-----------------------------------------------------------------------------
(* ReflectiveLayer.  Its state is the record                                 *)
(* [interaction_history, min_samples]; volatility_threshold keeps its        *)
(* default.                                                                  *)
(* Faults: 315 time.sleep, 327 numpy inside _analyze_learning_progress.      *)

ReflectiveFaults == {315, 327}

\* ReflectiveLayer.__init__(min_samples, volatility_threshold = 0.3): the
\* arguments are stored as given; nothing is checked
ReflectiveLayerInit(ms) ==
    [ok |-> TRUE, layer |-> [interaction_history |-> <<>>, min_samples |-> ms]]

\* [p["reactive"]["prediction_error"] for p in patterns]
ErrorsOf(patterns) == [i \in 1..Len(patterns) |-> patterns[i].reactive.prediction_error]

\* ReflectiveLayer._calculate_volatility
CalculateVolatility(recent_patterns) ==
    IF Len(recent_patterns) < 2 THEN 0 ELSE NpStd(ErrorsOf(recent_patterns))

\* _analyze_learning_progress with `<=` in the test of the history length
AnalyzeLearningProgressLate(st) ==
    IF Len(st.interaction_history) <= st.min_samples
    THEN [stage |-> "initial", confidence |-> 0, stability |-> "unknown"]
    ELSE LET recent == LastN(st.interaction_history, st.min_samples)
             volatility == CalculateVolatility(recent)
         IN  [stage |-> IF Len(st.interaction_history) > st.min_samples * 2
                        THEN "advanced" ELSE "developing",
              confidence |-> Max(0, Scale - volatility),
              stability |-> IF volatility < VolatilityThreshold THEN "stable" ELSE "volatile"]

\* _analyze_learning_progress with confidence = 1 - volatility, without max(0, .)
AnalyzeLearningProgressUnclamped(st) ==
    IF Len(st.interaction_history) < st.min_samples
    THEN [stage |-> "initial", confidence |-> 0, stability |-> "unknown"]
    ELSE LET recent == LastN(st.interaction_history, st.min_samples)
             volatility == CalculateVolatility(recent)
         IN  [stage |-> IF Len(st.interaction_history) > st.min_samples * 2
                        THEN "advanced" ELSE "developing",
              confidence |-> Scale - volatility,
              stability |-> IF volatility < VolatilityThreshold THEN "stable" ELSE "volatile"]

\* ReflectiveLayer._analyze_learning_progress
AnalyzeLearningProgress(st) ==
    IF Len(st.interaction_history) < st.min_samples
    THEN [stage |-> "initial", confidence |-> 0, stability |-> "unknown"]
    ELSE LET recent == LastN(st.interaction_history, st.min_samples)
             volatility == CalculateVolatility(recent)
         IN  [stage |-> IF Len(st.interaction_history) > st.min_samples * 2
                        THEN "advanced" ELSE "developing",
              confidence |-> Max(0, Scale - volatility),
              stability |-> IF volatility < VolatilityThreshold THEN "stable" ELSE "volatile"]

\* lines 330-336 of analyze_patterns; `needed` is the number the f-string prints
Strategy(progress, st) ==
    IF progress.stage = "initial"
    THEN [text |-> "Building understanding... (N more samples needed)",
          needed |-> st.min_samples - Len(st.interaction_history)]
    ELSE IF progress.stability = "stable"
    THEN [text |-> "Maintaining successful interaction patterns.", needed |-> 0]
    ELSE [text |-> "Adjusting approach to improve stability.", needed |-> 0]

\* the dictionary the except clause of analyze_patterns returns
ReflectiveFallback(st) ==
    [progress |-> [stage |-> "error", confidence |-> 0, stability |-> "unknown"],
     strategy |-> [text |-> "Maintaining basic interaction patterns.", needed |-> 0],
     history_length |-> Len(st.interaction_history),
     confidence |-> 0]

\* the except clause of analyze_patterns, entered with the layer in state st
ReflectiveCaught(st) ==
    [state |-> st, raised |-> TRUE, escaped |-> FALSE, out |-> ReflectiveFallback(st)]

\* analyze_patterns storing the new record in front of the older ones
AnalyzePatternsPrepending(st, signal, reactive_output, responsive_output, fault) ==
    LET pattern == [signal |-> signal, reactive |-> reactive_output,
                    responsive |-> responsive_output]
        s1 == [st EXCEPT !.interaction_history = <<pattern>> \o @]
        progress == AnalyzeLearningProgress(s1)
    IN  CASE fault = 315 -> ReflectiveCaught(st)
          [] fault = 327 -> ReflectiveCaught(s1)
          [] OTHER ->
               [state |-> s1, raised |-> FALSE, escaped |-> FALSE,
                out |-> [progress |-> progress,
                         strategy |-> Strategy(progress, s1),
                         history_length |-> Len(s1.interaction_history),
                         confidence |-> progress.confidence]]

\* ReflectiveLayer.analyze_patterns
AnalyzePatterns(st, signal, reactive_output, responsive_output, fault) ==
    LET pattern == [signal |-> signal, reactive |-> reactive_output,
                    responsive |-> responsive_output]
        s1 == [st EXCEPT !.interaction_history = Append(@, pattern)]
        progress == AnalyzeLearningProgress(s1)
    IN  CASE fault = 315 -> ReflectiveCaught(st)
          [] fault = 327 -> ReflectiveCaught(s1)
          [] OTHER ->
               [state |-> s1, raised |-> FALSE, escaped |-> FALSE,
                out |-> [progress |-> progress,
                         strategy |-> Strategy(progress, s1),
                         history_length |-> Len(s1.interaction_history),
                         confidence |-> progress.confidence]]

-----------------------------------------------------------------------------
(* VirtualHuman.  `layers` is the record [reactive, responsive, reflective]  *)
(* of the three layers' states.                                              *)

\* VirtualHuman._generate_fallback_response
GenerateFallbackResponse(number) ==
    [reactive |-> [emotion |-> 0, prediction_error |-> 0,
                   learning_rate |-> 300 * Scale, attention |-> Scale,
                   response_time |-> 50],
     responsive |-> [predicted_next |-> 0,
                     response |-> "Let's continue our discussion.",
                     state |-> "building_rapport",
                     context_confidence |-> 500],
     reflective |-> [progress |-> [stage |-> "error", confidence |-> 0,
                                   stability |-> "unknown"],
                     strategy |-> [text |-> "Maintaining basic interaction patterns.",
                                   needed |-> 0],
                     history_length |-> 0,
                     confidence |-> 0],
     total_processing_time |-> 750,
     interaction_number |-> number]

\* process_interaction without its except clause: the exception reaches the caller
CriticalNotCaught(exc, number) ==
    [kind |-> "raise", fallback |-> FALSE, value |-> exc]

\* the except clause of process_interaction: the exception is caught and the
\* fallback response is returned to the caller
CriticalCaught(exc, number) ==
    [kind |-> "return", fallback |-> TRUE, value |-> GenerateFallbackResponse(number)]

\* VirtualHuman.process_interaction, as a function of the state it starts in:
\* the layers' new state, the layer steps it entered, and how the call ended
ProcessInteractionCall(layers, count, value, rfault, sfault, lfault, pick) ==
    LET number == count + 1
        made == SocialSignalInit(value, SignalConfidence, number)
    IN  IF ~made.ok
        THEN [layers |-> layers, calls |-> <<>>, outcome |-> CriticalCaught(made.exc, number)]
        ELSE
        LET r == ProcessSignal(layers.reactive, made.signal, rfault)
            l1 == [layers EXCEPT !.reactive = r.state]
        IN  IF r.escaped
            THEN [layers |-> l1, calls |-> <<"reactive">>,
                  outcome |-> CriticalCaught("reactive", number)]
            ELSE
        LET s == ProcessContext(l1.responsive, made.signal, r.out, sfault, pick)
            l2 == [l1 EXCEPT !.responsive = s.state]
        IN  IF s.escaped
            THEN [layers |-> l2, calls |-> <<"reactive", "responsive">>,
                  outcome |-> CriticalCaught("responsive", number)]
            ELSE
        LET f == AnalyzePatterns(l2.reflective, made.signal, r.out, s.out, lfault)
            l3 == [l2 EXCEPT !.reflective = f.state]
        IN  IF f.escaped
            THEN [layers |-> l3, calls |-> <<"reactive", "responsive", "reflective">>,
                  outcome |-> CriticalCaught("reflective", number)]
            ELSE [layers |-> l3, calls |-> <<"reactive", "responsive", "reflective">>,
                  outcome |->
                    [kind |-> "return", fallback |-> FALSE,
                     value |-> [reactive |-> r.out,
                                responsive |-> s.out,
                                reflective |-> f.out,
                                total_processing_time |-> r.out.response_time + 200 + 500,
                                interaction_number |-> number]]]

-----------------------------------------------------------------------------
(* The state machine of one VirtualHuman *)

\* how many calls a run makes, how many of them may be given an invalid value
\* or a fault, and how many response candidates the random choice ranges over
MaxTicks == 3
MaxBadTicks == 1
MaxPick == 1

ValidValues == {Fin(-1000), Fin(600), Fin(800)}
InvalidValues == {NaN, PosInf, NegInf, Fin(1500), Fin(-1200)}

\* at most one layer is given a fault in a tick
FaultChoices ==
    {<<0, 0, 0>>}
      \cup {<<f, 0, 0>> : f \in ReactiveFaults}
      \cup {<<0, f, 0>> : f \in ResponsiveFaults}
      \cup {<<0, 0, f>> : f \in ReflectiveFaults}

LayersNow ==
    [reactive |-> [emotional_state |-> emotional_state,
                   prediction_error |-> prediction_error,
                   recent_errors |-> recent_errors],
     responsive |-> [context_window |-> context_window,
                     current_state |-> current_state],
     reflective |-> [interaction_history |-> interaction_history,
                     min_samples |-> min_samples]]

NoCall == [op |-> "none", bad |-> 0, n |-> 0]

\* the three layers of NOVA (03_kafka_nova_poc.py), in the order of the
\* dictionary `tasks` and of the flush loop
NovaLayers == <<"reactive", "responsive", "reflective">>

\* no PredictiveCodingNetwork is built
NoNetwork == <<>>

\* no process_message is in progress
NoTasks == [made |-> FALSE]

\* main has not been entered
NotStarted == [pc |-> "not started"]

\* three new producers: nothing waits to be sent
NoProducerBacklog == [l \in {"reactive", "responsive", "reflective"} |-> 0]

\* the callers of one VirtualHuman; each runs in a thread of its own
Callers == {1, 2}

\* Python's None
None == [type |-> "None"]

\* a local variable of process_interaction that has not been assigned
Unset == [set |-> FALSE]

\* a caller that is not inside process_interaction
Idle ==
    [pc |-> "idle", done |-> 0, signal |-> Unset, reactive_output |-> Unset,
     responsive_output |-> Unset, reflective_output |-> Unset, result |-> Unset]

NoneInFlight == [c \in Callers |-> Idle]

\* no LearningHistory object has been constructed
NoLearningHistory == [made |-> FALSE]

\* VirtualHuman.__init__ and the three layers' __init__
Init ==
    /\ emotional_state = 0
    /\ prediction_error = 0
    /\ recent_errors = <<>>
    /\ context_window = <<>>
    /\ current_state = "building_rapport"
    /\ interaction_history = <<>>
    /\ min_samples = MinSamples
    /\ learning_history = NoLearningHistory
    /\ interaction_count = 0
    /\ in_flight = NoneInFlight
    /\ producer = NoProducerBacklog
    /\ nodes = NoNetwork
    /\ tasks = NoTasks
    /\ kafka = NotStarted
    /\ last = NoCall
    /\ prev = NoCall

\* the layers' state becomes `layers`
StoreLayers(layers) ==
    /\ emotional_state' = layers.reactive.emotional_state
    /\ prediction_error' = layers.reactive.prediction_error
    /\ recent_errors' = layers.reactive.recent_errors
    /\ context_window' = layers.responsive.context_window
    /\ current_state' = layers.responsive.current_state
    /\ interaction_history' = layers.reflective.interaction_history
    /\ min_samples' = layers.reflective.min_samples

\* the number of candidates numpy.random.choice picks from in a tick with this signal value
ResponseChoices(value) ==
    Len(Responses(AnalyzeEngagementPattern(
            PushContext(context_window, [value |-> value.v]))))

\* one call vh.process_interaction("emotion", value)
ProcessInteraction(value, rfault, sfault, lfault, pick) ==
    LET bad == (value \in InvalidValues) \/ <<rfault, sfault, lfault>> # <<0, 0, 0>>
    IN  /\ bad => last.bad < MaxBadTicks
        /\ pick = 1 \/ (~bad /\ pick <= ResponseChoices(value))
        /\ \E call \in {ProcessInteractionCall(LayersNow, interaction_count, value,
                                               rfault, sfault, lfault, pick)} :
              /\ interaction_count' = interaction_count + 1
              /\ StoreLayers(call.layers)
              /\ UNCHANGED <<learning_history, in_flight, producer, nodes, tasks, kafka>>
              /\ prev' = last
              /\ last' = [op |-> "process_interaction",
                          bad |-> last.bad + (IF bad THEN 1 ELSE 0),
                          value |-> value,
                          rfault |-> rfault, sfault |-> sfault, lfault |-> lfault,
                          before |-> LayersNow,
                          calls |-> call.calls,
                          outcome |-> call.outcome]

\* a call with a value in range; one of the layers may raise
ValidInput ==
    /\ interaction_count < MaxTicks
    /\ \E value \in ValidValues, faults \in FaultChoices, pick \in 1..MaxPick :
          ProcessInteraction(value, faults[1], faults[2], faults[3], pick)

\* a call with a value out of range or not finite
InvalidInput ==
    /\ interaction_count < MaxTicks
    /\ \E value \in InvalidValues : ProcessInteraction(value, 0, 0, 0, 1)

Next == ValidInput \/ InvalidInput

Spec == Init /\ [][Next]_vars

-----------------------------------------------------------------------------
(* One ReactiveLayer driven directly (specification SpecReactive): the layer *)
(* starts from an estimate and an error buffer of an earlier run and         *)
(* process_signal is called with valid signals.                              *)

MaxReactiveSteps == 3

ReactiveEstimates == {-1000, 0, 600, 999}
ReactiveHistories ==
    {<<>>, <<800>>, <<-400, 1200>>, <<100, -100, 100, -100, 100>>}
ReactiveValues == {-1000, 0, 600, 800, 1000}

InitReactive ==
    /\ emotional_state \in ReactiveEstimates
    /\ recent_errors \in ReactiveHistories
    /\ prediction_error = (IF recent_errors = <<>> THEN 0
                           ELSE recent_errors[Len(recent_errors)])
    /\ context_window = <<>>
    /\ current_state = "building_rapport"
    /\ interaction_history = <<>>
    /\ min_samples = MinSamples
    /\ learning_history = NoLearningHistory
    /\ interaction_count = 0
    /\ in_flight = NoneInFlight
    /\ producer = NoProducerBacklog
    /\ nodes = NoNetwork
    /\ tasks = NoTasks
    /\ kafka = NotStarted
    /\ last = NoCall
    /\ prev = NoCall

\* one call reactive.process_signal(SocialSignal("emotion", value, 0.9, now))
ReactiveStep(value) ==
    /\ last.n < MaxReactiveSteps
    /\ \E made \in {SocialSignalInit(Fin(value), SignalConfidence, last.n + 1)} :
       \E r \in {ProcessSignal(LayersNow.reactive, made.signal, 0)} :
          /\ made.ok
          /\ emotional_state' = r.state.emotional_state
          /\ prediction_error' = r.state.prediction_error
          /\ recent_errors' = r.state.recent_errors
          /\ prev' = last
          /\ last' = [op |-> "process_signal", bad |-> 0, n |-> last.n + 1,
                      value |-> value,
                      before |-> LayersNow.reactive,
                      out |-> r.out]
    /\ UNCHANGED <<context_window, current_state, interaction_history, min_samples,
                   learning_history, interaction_count, in_flight, producer, nodes, tasks, kafka>>

NextReactive == \E value \in ReactiveValues : ReactiveStep(value)

SpecReactive == InitReactive /\ [][NextReactive]_vars

-----------------------------------------------------------------------------
(* One VirtualHuman given valid values only, for more ticks than the context *)
(* window holds (specification SpecWindow)                                   *)

MaxWindowTicks == 12

WindowValues == {Fin(600), Fin(-1000)}

NextWindow ==
    /\ interaction_count < MaxWindowTicks
    /\ \E value \in WindowValues : ProcessInteraction(value, 0, 0, 0, 1)

SpecWindow == Init /\ [][NextWindow]_vars

-----------------------------------------------------------------------------
(* The decision of _analyze_engagement_pattern on statistics given directly  *)
(* (specification SpecClassify)                                              *)

StatSizes == {2, 3, 10}
StatMomenta == {-600, -501, -500, 0, 500, 501, 600}
StatTrends == {-300, 0, 199, 300, 600, 601, 900}
StatVolatilities == {0, 199, 200, 300, 400, 401}

InitClassify ==
    /\ emotional_state = 0
    /\ prediction_error = 0
    /\ recent_errors = <<>>
    /\ context_window = <<>>
    /\ current_state = "building_rapport"
    /\ interaction_history = <<>>
    /\ min_samples = MinSamples
    /\ learning_history = NoLearningHistory
    /\ interaction_count = 0
    /\ in_flight = NoneInFlight
    /\ producer = NoProducerBacklog
    /\ nodes = NoNetwork
    /\ tasks = NoTasks
    /\ kafka = NotStarted
    /\ last \in [op : {"stats"}, bad : {0}, n : {0}, size : StatSizes,
                 momentum : StatMomenta, trend : StatTrends,
                 volatility : StatVolatilities]
    /\ prev = NoCall

\* the statistics are classified and the state is stored
Classify ==
    /\ last.op = "stats"
    /\ current_state' = ClassifyStats(last.size, last.momentum, last.trend, last.volatility)
    /\ last' = [last EXCEPT !.op = "classified"]
    /\ prev' = last
    /\ UNCHANGED <<emotional_state, prediction_error, recent_errors, context_window,
                   interaction_history, min_samples, learning_history, interaction_count, in_flight, producer, nodes, tasks, kafka>>

NextClassify == Classify

SpecClassify == InitClassify /\ [][NextClassify]_vars

-----------------------------------------------------------------------------
(* The earlier variant of the engine, src/predictive_coding/02_pc_nova_demo.py *)
(* (specification SpecDemo).  Its SocialSignal has no __post_init__, its       *)
(* layers have no try/except, its ReactiveLayer keeps emotional_state and      *)
(* prediction_error only, its ResponsiveLayer keeps context_window only and    *)
(* its ReflectiveLayer keeps learning_history, held in interaction_history.    *)

\* 10^4 * exp(-k), exp(-k/10), exp(-k/100), exp(-k/1000) for k = 0..9, at index k + 1
ExpNegUnits == <<10000, 3679, 1353, 498, 183, 67, 25, 9, 3, 1>>
ExpNegTenths == <<10000, 9048, 8187, 7408, 6703, 6065, 5488, 4966, 4493, 4066>>
ExpNegHundredths == <<10000, 9900, 9802, 9704, 9608, 9512, 9418, 9324, 9231, 9139>>
ExpNegThousandths == <<10000, 9990, 9980, 9970, 9960, 9950, 9940, 9930, 9920, 9910>>

\* numpy.exp(-x) for x >= 0, both in units of 1/Scale: the product of the
\* four factors of the decimal digits of x, each step rounded at 10^-4
NpExpNeg(x) ==
    IF x >= 10 * Scale THEN 0
    ELSE LET p1 == ExpNegUnits[(x \div 1000) + 1]
             p2 == RoundDiv(p1 * ExpNegTenths[((x \div 100) % 10) + 1], 10000)
             p3 == RoundDiv(p2 * ExpNegHundredths[((x \div 10) % 10) + 1], 10000)
             p4 == RoundDiv(p3 * ExpNegThousandths[(x % 10) + 1], 10000)
         IN  RoundDiv(p4, 10)

\* base_learning_rate * (2 - confidence_factor), in units of 1/(Scale * Scale)
DemoLearningRate(error) == BaseLearningRate * (2 * Scale - NpExpNeg(Abs(error)))

\* ReactiveLayer.process_signal of the demo: no validation, no clip
DemoProcessSignal(st, signal) ==
    LET error == signal.value - st.emotional_state
        estimate == st.emotional_state
                      + RoundDiv(DemoLearningRate(error) * error, Scale * Scale)
    IN  [state |-> [emotional_state |-> estimate, prediction_error |-> error],
         out |-> [emotion |-> estimate, prediction_error |-> error, response_time |-> 50]]

\* the candidates of _select_response
DemoResponses(error) ==
    IF error > 500
    THEN <<"I notice this surprised you. Let me explain differently.",
           "That was unexpected! Let's break this down more clearly.",
           "Interesting reaction! Should we explore this from another angle?">>
    ELSE IF error < -500
    THEN <<"You seem comfortable with this. Shall we go deeper?",
           "You're following well! Want to explore more advanced aspects?",
           "This seems to resonate with you. Let's build on that.">>
    ELSE <<"I see you're following along. Let's continue.",
           "We're making good progress here.",
           "You're engaging well with this material.",
           "Let's keep going at this pace.">>

\* ResponsiveLayer.process_context of the demo; the window holds 10 signals
DemoProcessContext(window, signal, reactive_output, pick) ==
    LET appended == Append(window, signal)
        kept == IF Len(appended) > 10 THEN Tail(appended) ELSE appended
        context_pattern == NpMean(ValuesOf(kept))
        predicted_next == RoundDiv(8 * context_pattern + 2 * reactive_output.emotion, 10)
    IN  [state |-> kept,
         out |-> [predicted_next |-> predicted_next,
                  response |-> DemoResponses(reactive_output.prediction_error)[pick],
                  context_confidence |-> Len(kept) * (Scale \div 10)]]

\* _adapt_behavior: the message, by stability and by the sign of the trend;
\* the volatile messages carry the volatility with two decimals
DemoAdaptBehavior(error_trend, volatility, stability) ==
    LET trend_desc == IF error_trend > 0 THEN "positive" ELSE "negative"
    IN  IF stability = "stable"
        THEN [text |-> IF trend_desc = "positive"
                       THEN "Steady positive engagement detected. Gradually increasing complexity."
                       ELSE "Consistent understanding shown. Maintaining current approach.",
              shown |-> 0]
        ELSE [text |-> IF trend_desc = "positive"
                       THEN "Variable engagement (volatility: {volatility:.2f}). Adjusting to stabilize interaction."
                       ELSE "Inconsistent responses (volatility: {volatility:.2f}). Simplifying approach.",
              shown |-> RoundDiv(volatility, 10)]

\* line 129 of the demo: min_samples = 3, a local of analyze_patterns
DemoMinSamples == 3

\* ReflectiveLayer.analyze_patterns of the demo
DemoAnalyzePatterns(history, signal, reactive_output, responsive_output) ==
    LET appended == Append(history, [value |-> signal.value,
                                     prediction_error |-> reactive_output.prediction_error])
        history_length == Len(appended)
        recent == LastN(appended, DemoMinSamples)
        errors == [i \in 1..Len(recent) |-> recent[i].prediction_error]
        adaptation ==
            IF history_length >= DemoMinSamples
            THEN DemoAdaptBehavior(NpMean(errors), NpStd(errors),
                                   IF NpStd(errors) < 300 THEN "stable" ELSE "volatile")
            ELSE [text |-> "Building understanding... ({remaining} more samples needed)",
                  shown |-> DemoMinSamples - history_length]
    IN  [state |-> appended,
         out |-> [adaptation |-> adaptation,
                  pattern_confidence |-> Min(history_length * (Scale \div 10), Scale),
                  history_length |-> history_length]]

\* how many calls a run of the demo makes
MaxDemoTicks == 4

\* the demo takes any float; these are one value below, one inside and one above [-1, 1]
DemoValues == {-1200, 600, 1500}

\* one call vh.process_interaction("emotion", value) of the demo
DemoProcessInteraction(value, pick) ==
    LET signal == [value |-> value]
    IN  \E r \in {DemoProcessSignal([emotional_state |-> emotional_state,
                                     prediction_error |-> prediction_error], signal)} :
        pick <= Len(DemoResponses(r.out.prediction_error)) /\
        \E s \in {DemoProcessContext(context_window, signal, r.out, pick)} :
        \E l \in {DemoAnalyzePatterns(interaction_history, signal, r.out, s.out)} :
           /\ emotional_state' = r.state.emotional_state
           /\ prediction_error' = r.state.prediction_error
           /\ context_window' = s.state
           /\ interaction_history' = l.state
           /\ prev' = last
           /\ last' = [op |-> "demo", bad |-> 0, n |-> last.n + 1, value |-> value,
                       before |-> [emotional_state |-> emotional_state,
                                   context_window |-> context_window,
                                   interaction_history |-> interaction_history],
                       outcome |-> [reactive |-> r.out, responsive |-> s.out,
                                    reflective |-> l.out,
                                    total_processing_time |-> r.out.response_time + 200 + 500]]
           /\ UNCHANGED <<recent_errors, current_state, min_samples, learning_history,
                          interaction_count, in_flight, producer, nodes, tasks, kafka>>

DemoInteraction ==
    /\ last.n < MaxDemoTicks
    /\ \E value \in DemoValues, pick \in 1..MaxPick : DemoProcessInteraction(value, pick)

NextDemo == DemoInteraction

SpecDemo == Init /\ [][NextDemo]_vars

-----------------------------------------------------------------------------
(* One ResponsiveLayer driven directly (specification SpecContext): the layer *)
(* starts with the window an earlier run left and process_context is called   *)
(* with a valid signal and a Reactive output; the step may raise at one of    *)
(* ResponsiveFaults, and numpy.random.choice may draw any candidate.          *)

MaxContextSteps == 1

\* the lengths of the windows the layer starts with
InitWindowLengths == 0..3

ContextValues == {-1000, 0, 400, 1000}
ContextEmotions == {700}

\* the longest candidate list of _generate_response has four strings
MaxCandidates == 4

\* the windows an earlier run of that many valid signals leaves
ContextWindows ==
    UNION {[1..n -> [value : ContextValues]] : n \in InitWindowLengths}

InitContext ==
    /\ context_window \in ContextWindows
    /\ current_state = AnalyzeEngagementPattern(context_window)
    /\ emotional_state = 0
    /\ prediction_error = 0
    /\ recent_errors = <<>>
    /\ interaction_history = <<>>
    /\ min_samples = MinSamples
    /\ learning_history = NoLearningHistory
    /\ interaction_count = 0
    /\ in_flight = NoneInFlight
    /\ producer = NoProducerBacklog
    /\ nodes = NoNetwork
    /\ tasks = NoTasks
    /\ kafka = NotStarted
    /\ last = NoCall
    /\ prev = NoCall

\* one call responsive.process_context(signal, reactive_output)
ContextStep(value, emotion, fault, pick) ==
    /\ last.n < MaxContextSteps
    /\ IF fault = 0
       THEN pick <= Len(Responses(AnalyzeEngagementPattern(
                            PushContext(context_window, [value |-> value]))))
       ELSE pick = 1
    /\ \E r \in {ProcessContext(LayersNow.responsive, [value |-> value],
                                [emotion |-> emotion, prediction_error |-> 0],
                                fault, pick)} :
          /\ context_window' = r.state.context_window
          /\ current_state' = r.state.current_state
          /\ prev' = last
          /\ last' = [op |-> "process_context", bad |-> 0, n |-> last.n + 1,
                      value |-> value, emotion |-> emotion, fault |-> fault,
                      pick |-> pick,
                      before |-> LayersNow.responsive,
                      out |-> r.out]
    /\ UNCHANGED <<emotional_state, prediction_error, recent_errors,
                   interaction_history, min_samples, learning_history, interaction_count,
                   in_flight, producer, nodes, tasks, kafka>>

NextContext ==
    \E value \in ContextValues, emotion \in ContextEmotions,
       fault \in {0} \cup ResponsiveFaults, pick \in 1..MaxCandidates :
        ContextStep(value, emotion, fault, pick)

SpecContext == InitContext /\ [][NextContext]_vars

-----------------------------------------------------------------------------
(* LearningHistory of src/virtual_human/learning_history.py: the record       *)
(* [made, min_samples, volatility_threshold, history]                         *)

\* LearningHistory.__init__
LearningHistoryInit(ms, threshold) ==
    IF ms < 5
    THEN [ok |-> FALSE,
          exc |-> "ValueError: min_samples must be at least 5 for reliable statistical calculations"]
    ELSE [ok |-> TRUE,
          object |-> [made |-> TRUE, min_samples |-> ms,
                      volatility_threshold |-> threshold, history |-> <<>>]]

-----------------------------------------------------------------------------
(* One ReflectiveLayer driven directly and the construction of a              *)
(* LearningHistory (specification SpecReflective): the layer is constructed   *)
(* with one of several min_samples and analyze_patterns is called with the    *)
(* outputs of the two faster layers; the call may raise at one of             *)
(* ReflectiveFaults.                                                          *)

MaxReflectiveSteps == 6

ReflectiveMinSamples == {0, 3, 5}
ReflectiveErrors == {-1900, 100, 1900}
LearningMinSamples == {3, 5}

\* ReflectiveLayer(min_samples = ms)
InitReflective ==
    /\ \E made \in {ReflectiveLayerInit(ms) : ms \in ReflectiveMinSamples} :
          /\ made.ok
          /\ interaction_history = made.layer.interaction_history
          /\ min_samples = made.layer.min_samples
    /\ learning_history = NoLearningHistory
    /\ emotional_state = 0
    /\ prediction_error = 0
    /\ recent_errors = <<>>
    /\ context_window = <<>>
    /\ current_state = "building_rapport"
    /\ interaction_count = 0
    /\ in_flight = NoneInFlight
    /\ producer = NoProducerBacklog
    /\ nodes = NoNetwork
    /\ tasks = NoTasks
    /\ kafka = NotStarted
    /\ last = NoCall
    /\ prev = NoCall

\* one call reflective.analyze_patterns(signal, reactive_output, responsive_output)
\* where reactive_output["prediction_error"] is `error`
ReflectiveStep(error, fault) ==
    /\ last.n < MaxReflectiveSteps
    /\ \E made \in {SocialSignalInit(Fin(0), SignalConfidence, last.n + 1)} :
       \E f \in {AnalyzePatterns(LayersNow.reflective, made.signal,
                                 [emotion |-> 0, prediction_error |-> error],
                                 [state |-> current_state], fault)} :
          /\ made.ok
          /\ interaction_history' = f.state.interaction_history
          /\ min_samples' = f.state.min_samples
          /\ prev' = last
          /\ last' = [op |-> "analyze_patterns", bad |-> 0, n |-> last.n + 1,
                      error |-> error, fault |-> fault,
                      before |-> LayersNow.reflective,
                      out |-> f.out]
    /\ UNCHANGED <<emotional_state, prediction_error, recent_errors, context_window,
                   current_state, learning_history, interaction_count, in_flight, producer, nodes, tasks, kafka>>

\* one call LearningHistory(min_samples = ms)
NewLearningHistory(ms) ==
    /\ last.n < MaxReflectiveSteps
    /\ \E made \in {LearningHistoryInit(ms, VolatilityThreshold)} :
          /\ learning_history' = (IF made.ok THEN made.object ELSE learning_history)
          /\ prev' = last
          /\ last' = [op |-> "LearningHistory", bad |-> 0, n |-> last.n + 1,
                      min_samples |-> ms,
                      raised |-> ~made.ok]
    /\ UNCHANGED <<emotional_state, prediction_error, recent_errors, context_window,
                   current_state, interaction_history, min_samples, interaction_count, in_flight, producer, nodes, tasks, kafka>>

NextReflective ==
    \/ \E error \in ReflectiveErrors, fault \in {0} \cup ReflectiveFaults :
          ReflectiveStep(error, fault)
    \/ \E ms \in LearningMinSamples : NewLearningHistory(ms)

SpecReflective == InitReflective /\ [][NextReflective]_vars

-----------------------------------------------------------------------------
(* One LearningHistory object (specification SpecLearning).  The class has   *)
(* no method that adds to history: the list is a public attribute and its    *)
(* client appends the interaction times.  A pair returned by                 *)
(* calculate_statistics is the record [mean, std_dev]; a Python None is None.*)

MaxLearningSteps == 7

LearningHistorySizes == {5, 6}
InteractionTimes == {1000, 2000}

\* LearningHistory.calculate_statistics: past the test the body ends, so the
\* call returns None
CalculateStatistics(object) ==
    IF Len(object.history) < object.min_samples
    THEN [mean |-> None, std_dev |-> None]
    ELSE None

\* LearningHistory.is_stable
IsStable(object) ==
    LET statistics == CalculateStatistics(object)
    IN  IF statistics = None
        THEN [raised |-> TRUE,
              exc |-> "TypeError: cannot unpack non-iterable NoneType object"]
        ELSE IF statistics.mean = None \/ statistics.std_dev = None
        THEN [raised |-> FALSE, value |-> FALSE]
        ELSE IF statistics.mean = 0
        THEN [raised |-> TRUE, exc |-> "ZeroDivisionError: division by zero"]
        ELSE [raised |-> FALSE,
              value |-> RoundDiv(statistics.std_dev * Scale, statistics.mean)
                          < object.volatility_threshold]

InitLearning ==
    /\ emotional_state = 0
    /\ prediction_error = 0
    /\ recent_errors = <<>>
    /\ context_window = <<>>
    /\ current_state = "building_rapport"
    /\ interaction_history = <<>>
    /\ min_samples = MinSamples
    /\ \E ms \in LearningHistorySizes :
          learning_history = LearningHistoryInit(ms, VolatilityThreshold).object
    /\ interaction_count = 0
    /\ in_flight = NoneInFlight
    /\ producer = NoProducerBacklog
    /\ nodes = NoNetwork
    /\ tasks = NoTasks
    /\ kafka = NotStarted
    /\ last = NoCall
    /\ prev = NoCall

LearningUnchanged ==
    UNCHANGED <<emotional_state, prediction_error, recent_errors, context_window,
                current_state, interaction_history, min_samples, interaction_count,
                in_flight, producer, nodes, tasks, kafka>>

\* the client's learning_history.history.append(time)
HistoryAppend(time) ==
    /\ last.n < MaxLearningSteps
    /\ learning_history' = [learning_history EXCEPT !.history = Append(@, time)]
    /\ prev' = last
    /\ last' = [op |-> "append", bad |-> 0, n |-> last.n + 1, time |-> time]
    /\ LearningUnchanged

\* one call learning_history.is_stable()
IsStableCall ==
    /\ last.n < MaxLearningSteps
    /\ last.op # "is_stable"
    /\ prev' = last
    /\ last' = [op |-> "is_stable", bad |-> 0, n |-> last.n + 1,
                outcome |-> IsStable(learning_history)]
    /\ UNCHANGED learning_history
    /\ LearningUnchanged

NextLearning ==
    \/ \E time \in InteractionTimes : HistoryAppend(time)
    \/ IsStableCall

SpecLearning == InitLearning /\ [][NextLearning]_vars

-----------------------------------------------------------------------------
(* One VirtualHuman called from two threads (specification SpecThreads).      *)
(* process_interaction takes no lock.  Every layer step begins with           *)
(* time.sleep (lines 122, 246, 315), where the interpreter lets another       *)
(* thread run; the statements of one call between two sleeps are taken as     *)
(* one step.  in_flight[c].pc names the layer step caller c is inside of.     *)

MaxCallerTicks == 1

\* the value each caller submits
CallerValue(c) == IF c = 1 THEN Fin(600) ELSE Fin(-1000)

\* the other callers that are inside process_interaction
OthersInFlight(c) == {u \in Callers \ {c} : in_flight[u].pc # "idle"}

\* the statement order of lines 377-382 with the call of process_context left out
StageAfterSkipping(pc) ==
    CASE pc = "reactive" -> "reflective"
      [] pc = "responsive" -> "reflective"
      [] pc = "reflective" -> "return"

\* lines 377-382: process_signal, then process_context, then analyze_patterns,
\* each called when the one before it has returned
StageAfter(pc) ==
    CASE pc = "reactive" -> "responsive"
      [] pc = "responsive" -> "reflective"
      [] pc = "reflective" -> "return"

\* the layer variables a step of caller c leaves alone, and the record of the step
StepBy(c, layer) ==
    /\ prev' = last
    /\ last' = [op |-> "layer_step", bad |-> 0, n |-> 0, caller |-> c, layer |-> layer,
                given |-> in_flight[c], concurrent |-> OthersInFlight(c)]
    /\ UNCHANGED <<min_samples, learning_history, producer, nodes, tasks, kafka>>

\* lines 366-378: the count, the signal, the call of process_signal up to its sleep
Enter(c) ==
    /\ in_flight[c].pc = "idle"
    /\ in_flight[c].done < MaxCallerTicks
    /\ \E made \in {SocialSignalInit(CallerValue(c), SignalConfidence,
                                     interaction_count + 1)} :
          /\ made.ok
          /\ interaction_count' = interaction_count + 1
          /\ in_flight' = [in_flight EXCEPT ![c] =
                             [Idle EXCEPT !.pc = "reactive", !.done = in_flight[c].done,
                                          !.signal = made.signal]]
    /\ prev' = last
    /\ last' = [op |-> "enter", bad |-> 0, n |-> 0, caller |-> c,
                concurrent |-> OthersInFlight(c)]
    /\ UNCHANGED <<emotional_state, prediction_error, recent_errors, context_window,
                   current_state, interaction_history, min_samples, learning_history,
                   producer, nodes, tasks, kafka>>

\* lines 123-138: process_signal after its sleep, and its return to line 378
ReactiveReturns(c) ==
    /\ in_flight[c].pc = "reactive"
    /\ \E r \in {ProcessSignal(LayersNow.reactive, in_flight[c].signal, 0)} :
          /\ emotional_state' = r.state.emotional_state
          /\ prediction_error' = r.state.prediction_error
          /\ recent_errors' = r.state.recent_errors
          /\ in_flight' = [in_flight EXCEPT ![c].reactive_output = r.out,
                                            ![c].pc = StageAfter("reactive")]
    /\ StepBy(c, "reactive")
    /\ UNCHANGED <<context_window, current_state, interaction_history, interaction_count>>

\* lines 247-264: process_context after its sleep, and its return to line 379
ResponsiveReturns(c) ==
    /\ in_flight[c].pc = "responsive"
    /\ \E s \in {ProcessContext(LayersNow.responsive, in_flight[c].signal,
                                in_flight[c].reactive_output, 0, 1)} :
          /\ context_window' = s.state.context_window
          /\ current_state' = s.state.current_state
          /\ in_flight' = [in_flight EXCEPT ![c].responsive_output = s.out,
                                            ![c].pc = StageAfter("responsive")]
    /\ StepBy(c, "responsive")
    /\ UNCHANGED <<emotional_state, prediction_error, recent_errors,
                   interaction_history, interaction_count>>

\* lines 317-343: analyze_patterns after its sleep, and its return to line 380
ReflectiveReturns(c) ==
    /\ in_flight[c].pc = "reflective"
    /\ \E f \in {AnalyzePatterns(LayersNow.reflective, in_flight[c].signal,
                                 in_flight[c].reactive_output,
                                 in_flight[c].responsive_output, 0)} :
          /\ interaction_history' = f.state.interaction_history
          /\ in_flight' = [in_flight EXCEPT ![c].reflective_output = f.out,
                                            ![c].pc = StageAfter("reflective")]
    /\ StepBy(c, "reflective")
    /\ UNCHANGED <<emotional_state, prediction_error, recent_errors, context_window,
                   current_state, interaction_count>>

\* lines 384-396: the result is built, with self.interaction_count as it is now
Return(c) ==
    /\ in_flight[c].pc = "return"
    /\ in_flight' = [in_flight EXCEPT ![c] =
          [Idle EXCEPT !.done = in_flight[c].done + 1,
                       !.result =
                          [reactive |-> in_flight[c].reactive_output,
                           responsive |-> in_flight[c].responsive_output,
                           reflective |-> in_flight[c].reflective_output,
                           total_processing_time |->
                               in_flight[c].reactive_output.response_time + 200 + 500,
                           interaction_number |-> interaction_count]]]
    /\ prev' = last
    /\ last' = [op |-> "return", bad |-> 0, n |-> 0, caller |-> c,
                signal |-> in_flight[c].signal, concurrent |-> OthersInFlight(c)]
    /\ UNCHANGED <<emotional_state, prediction_error, recent_errors, context_window,
                   current_state, interaction_history, min_samples, learning_history,
                   interaction_count, producer, nodes, tasks, kafka>>

NextThreads ==
    \E c \in Callers :
        \/ Enter(c)
        \/ ReactiveReturns(c)
        \/ ResponsiveReturns(c)
        \/ ReflectiveReturns(c)
        \/ Return(c)

SpecThreads == Init /\ [][NextThreads]_vars

-----------------------------------------------------------------------------
(* NOVA of src/predictive_coding/03_kafka_nova_poc.py (specification          *)
(* SpecNova).  Its state is the backlog of the three Kafka producers.  A       *)
(* layer's process raises when the layer is in `failing`; flush_fault is the   *)
(* position (1..3) of the producer whose flush raises, 0 for none.  Wall-clock *)
(* times are left out of the results; an f-string is kept as the pair of its   *)
(* literal text and the content it prints.                                     *)

MaxNovaCalls == 2

NovaLayerSet == {NovaLayers[i] : i \in 1..Len(NovaLayers)}

\* the position of a layer in the flush loop of line 316
LayerIndex(layer) == CHOOSE i \in 1..Len(NovaLayers) : NovaLayers[i] = layer

NovaMessages ==
    {[type |-> "user_input", content |-> "Hello, how are you?"],
     [type |-> "user_input"]}

\* message.get('content', '')
MessageContent(message) ==
    IF "content" \in DOMAIN message THEN message.content ELSE ""

\* what the three process coroutines return (lines 219-222, 247-251, 276-280)
LayerResponse(layer, message) ==
    CASE layer = "reactive" ->
           [type |-> "reactive_response",
            content |-> <<"Quick acknowledgment: ", MessageContent(message)>>]
      [] layer = "responsive" ->
           [type |-> "responsive_response",
            content |-> <<"Thoughtful response to: ", MessageContent(message)>>,
            context |-> "user_interaction"]
      [] layer = "reflective" ->
           [type |-> "reflective_update",
            pattern |-> "user_interaction_pattern",
            learning |-> <<"Learned from: ", MessageContent(message)>>]

\* the asyncio.sleep of each layer, in milliseconds
LayerSleep(layer) ==
    CASE layer = "reactive" -> 50
      [] layer = "responsive" -> 200
      [] layer = "reflective" -> 400

\* timed_process: the returned dictionary gets the timing keys; an exception
\* is logged and raised again as NOVALayerError
TimedProcess(layer, message, fails) ==
    IF fails
    THEN [raised |-> TRUE, exc |-> "NOVALayerError",
          logged |-> <<"Layer processing failed">>]
    ELSE LET result == LayerResponse(layer, message)
         IN  [raised |-> FALSE,
              value |-> [k \in DOMAIN result \cup {"processing_duration"} |->
                            IF k \in DOMAIN result THEN result[k] ELSE LayerSleep(layer)],
              logged |-> <<>>]

\* lines 308-312 without the except clause: the layer's exception leaves the loop
AwaitNotCaught(name, task) ==
    IF task.raised
    THEN [raised |-> TRUE, value |-> None, logged |-> task.logged]
    ELSE [raised |-> FALSE, value |-> task.value, logged |-> task.logged]

\* lines 308-312: results[name] = await task, or None when the task raised
AwaitCaught(name, task) ==
    IF task.raised
    THEN [raised |-> FALSE, value |-> None,
          logged |-> task.logged \o <<"Error in layer">>]
    ELSE [raised |-> FALSE, value |-> task.value, logged |-> task.logged]

\* the loop of lines 316-317: the producers are flushed in order up to the
\* one whose flush raises
FlushProducers(backlog, flush_fault) ==
    [backlog |-> [l \in DOMAIN backlog |->
                     IF flush_fault = 0 \/ LayerIndex(l) < flush_fault
                     THEN 0 ELSE backlog[l]],
     raised |-> flush_fault # 0]

\* lines 318-320 with the raise left out: the failure is logged and the
\* results are returned
FlushFailedLoggedOnly(results, logged) ==
    [kind |-> "return", value |-> results,
     logged |-> logged \o <<"Failed to flush producers">>]

\* lines 318-320: the failure is logged and KafkaPublishError is raised
FlushFailed(results, logged) ==
    [kind |-> "raise", value |-> "KafkaPublishError",
     logged |-> logged \o <<"Failed to flush producers">>]

\* NOVA.process_message
ProcessMessageCall(backlog, message, failing, flush_fault) ==
    LET slot == [l \in NovaLayerSet |->
                    AwaitCaught(l, TimedProcess(l, message, l \in failing))]
        results == [l \in NovaLayerSet |-> slot[l].value]
        logged == slot["reactive"].logged \o slot["responsive"].logged
                    \o slot["reflective"].logged
        flushed == FlushProducers(backlog, flush_fault)
    IN  IF \E l \in NovaLayerSet : slot[l].raised
        THEN [backlog |-> backlog,
              outcome |-> [kind |-> "raise", value |-> "NOVALayerError", logged |-> logged]]
        ELSE IF flushed.raised
        THEN [backlog |-> flushed.backlog, outcome |-> FlushFailed(results, logged)]
        ELSE [backlog |-> flushed.backlog,
              outcome |-> [kind |-> "return", value |-> results, logged |-> logged]]

\* NOVALayer.publish: produce queues the message and poll(0) serves no
\* callback yet; when produce raises, the error is logged and raised again as
\* KafkaPublishError
PublishCall(backlog, layer, fails) ==
    IF fails
    THEN [backlog |-> backlog,
          outcome |-> [kind |-> "raise", value |-> "KafkaPublishError",
                       logged |-> <<"Failed to publish message to Kafka">>]]
    ELSE [backlog |-> [backlog EXCEPT ![layer] = @ + 1],
          outcome |-> [kind |-> "return", value |-> None, logged |-> <<>>]]

NovaUnchanged ==
    UNCHANGED <<emotional_state, prediction_error, recent_errors, context_window,
                current_state, interaction_history, min_samples, learning_history,
                interaction_count, in_flight, nodes, tasks, kafka>>

\* one call await nova.process_message(message)
ProcessMessage(message, failing, flush_fault) ==
    /\ last.n < MaxNovaCalls
    /\ \E call \in {ProcessMessageCall(producer, message, failing, flush_fault)} :
          /\ producer' = call.backlog
          /\ prev' = last
          /\ last' = [op |-> "process_message", bad |-> 0, n |-> last.n + 1,
                      message |-> message, failing |-> failing,
                      flush_fault |-> flush_fault,
                      before |-> producer, outcome |-> call.outcome]
    /\ NovaUnchanged

\* one call nova.<layer>.publish(topic, message)
Publish(layer, fails) ==
    /\ last.n < MaxNovaCalls
    /\ \E call \in {PublishCall(producer, layer, fails)} :
          /\ producer' = call.backlog
          /\ prev' = last
          /\ last' = [op |-> "publish", bad |-> 0, n |-> last.n + 1,
                      layer |-> layer, fails |-> fails,
                      before |-> producer, outcome |-> call.outcome]
    /\ NovaUnchanged

NextNova ==
    \/ \E message \in NovaMessages, failing \in SUBSET NovaLayerSet,
          flush_fault \in 0..Len(NovaLayers) :
          ProcessMessage(message, failing, flush_fault)
    \/ \E layer \in NovaLayerSet, fails \in BOOLEAN : Publish(layer, fails)

SpecNova == Init /\ [][NextNova]_vars

-----------------------------------------------------------------------------
(* NOVA.process_message step by step (specification SpecAwait).  The         *)
(* dictionary of lines 300-304 holds three coroutine objects; a coroutine    *)
(* object runs only while it is awaited, and the loop of lines 307-312       *)
(* awaits them one at a time.  A coroutine is "created" until the loop       *)
(* awaits it, "sleeping" inside its asyncio.sleep, then "done".  clock is    *)
(* the time in milliseconds since the call was entered.                      *)

MaxAwaitCalls == 2

\* lines 296-306: the three coroutine objects are created, none has started
TasksCreated(message) ==
    [made |-> TRUE, pc |-> "loop", message |-> message,
     coro |-> [l \in NovaLayerSet |-> "created"],
     position |-> 1,
     results |-> [l \in NovaLayerSet |-> Unset],
     start_time |-> [l \in NovaLayerSet |-> Unset],
     end_time |-> [l \in NovaLayerSet |-> Unset],
     clock |-> 0]

AwaitUnchanged ==
    UNCHANGED <<emotional_state, prediction_error, recent_errors, context_window,
                current_state, interaction_history, min_samples, learning_history,
                interaction_count, in_flight, nodes, kafka>>

\* await nova.process_message(message) is entered
EnterProcessMessage(message) ==
    /\ last.n < MaxAwaitCalls
    /\ IF tasks.made THEN tasks.pc \in {"returned", "raised"} ELSE TRUE
    /\ tasks' = TasksCreated(message)
    /\ prev' = last
    /\ last' = [op |-> "process_message", bad |-> 0, n |-> last.n + 1,
                message |-> message]
    /\ UNCHANGED producer
    /\ AwaitUnchanged

\* line 309: the loop reaches `await task` for this layer; its coroutine
\* starts, takes start_time and suspends in asyncio.sleep
AwaitTask(layer) ==
    /\ tasks.made
    /\ tasks.pc = "loop"
    /\ tasks.position = LayerIndex(layer)
    /\ tasks.coro[layer] = "created"
    /\ tasks' = [tasks EXCEPT !.coro[layer] = "sleeping",
                              !.start_time[layer] = [set |-> TRUE, at |-> tasks.clock]]
    /\ UNCHANGED <<producer, last, prev>>
    /\ AwaitUnchanged

\* the sleep of the awaited coroutine ends; it returns or raises, and the
\* loop stores its result (lines 309-312) and moves on
TaskCompletes(layer, fails) ==
    /\ tasks.made
    /\ tasks.pc = "loop"
    /\ tasks.coro[layer] = "sleeping"
    /\ \E got \in {AwaitCaught(layer, TimedProcess(layer, tasks.message, fails))} :
          tasks' = [tasks EXCEPT !.coro[layer] = "done",
                                 !.clock = @ + LayerSleep(layer),
                                 !.end_time[layer] = [set |-> TRUE,
                                                      at |-> tasks.clock + LayerSleep(layer)],
                                 !.results[layer] = got.value,
                                 !.position = @ + 1,
                                 !.pc = IF tasks.position = Len(NovaLayers)
                                        THEN "flush" ELSE "loop"]
    /\ UNCHANGED <<producer, last, prev>>
    /\ AwaitUnchanged

\* lines 314-323: the producers are flushed and the results returned, or
\* KafkaPublishError is raised
FlushAndReturn(flush_fault) ==
    /\ tasks.made
    /\ tasks.pc = "flush"
    /\ \E flushed \in {FlushProducers(producer, flush_fault)} :
          /\ producer' = flushed.backlog
          /\ tasks' = [tasks EXCEPT !.pc = IF flushed.raised THEN "raised"
                                           ELSE "returned"]
    /\ UNCHANGED <<last, prev>>
    /\ AwaitUnchanged

NextAwait ==
    \/ \E message \in NovaMessages : EnterProcessMessage(message)
    \/ \E layer \in NovaLayerSet : AwaitTask(layer)
    \/ \E layer \in NovaLayerSet, fails \in BOOLEAN : TaskCompletes(layer, fails)
    \/ \E flush_fault \in 0..Len(NovaLayers) : FlushAndReturn(flush_fault)

SpecAwait == Init /\ [][NextAwait]_vars

-----------------------------------------------------------------------------
(* main and the Kafka clients of the layers (specification SpecMain).  Each  *)
(* layer holds a producer ("none" before Producer() returned, "open", then   *)
(* "flushed") and a consumer ("none", "open", then "closed").  A fault names *)
(* the layer and the call that raises.  __del__ runs when the interpreter    *)
(* collects the object, at a time of its choosing or never.                  *)

MaxMainRuns == 1

NoFault == [layer |-> "none"]

\* Producer(...) or Consumer(...) of one layer raises (lines 132-133)
ConstructFaults ==
    {NoFault} \cup {[layer |-> l, at |-> a] :
                       l \in NovaLayerSet, a \in {"producer", "consumer"}}

\* producer.flush() or consumer.close() of one layer raises (lines 140-144)
CloseFaults ==
    {NoFault} \cup {[layer |-> l, at |-> a] :
                       l \in NovaLayerSet, a \in {"flush", "close"}}

\* the position of the layer a fault names; past the last layer for no fault
FaultIndex(fault) ==
    IF fault = NoFault THEN Len(NovaLayers) + 1 ELSE LayerIndex(fault.layer)

\* NOVA.__init__ over NOVALayer.__init__: the layers are built in order, each
\* its producer then its consumer, up to the call that raises
NovaInit(fault) ==
    [ok |-> fault = NoFault,
     clients |-> [l \in NovaLayerSet |->
                    IF LayerIndex(l) < FaultIndex(fault)
                    THEN [producer |-> "open", consumer |-> "open"]
                    ELSE IF LayerIndex(l) = FaultIndex(fault) /\ fault.at = "consumer"
                    THEN [producer |-> "open", consumer |-> "none"]
                    ELSE [producer |-> "none", consumer |-> "none"]]]

\* NOVALayer.close
LayerClose(client, fault_at) ==
    IF fault_at = "flush" THEN client
    ELSE IF fault_at = "close" THEN [client EXCEPT !.producer = "flushed"]
    ELSE [producer |-> "flushed", consumer |-> "closed"]

\* NOVA.close: the layers are closed in order up to the call that raises
NovaClose(clients, fault) ==
    [raised |-> fault # NoFault,
     clients |-> [l \in NovaLayerSet |->
                    IF LayerIndex(l) < FaultIndex(fault)
                    THEN LayerClose(clients[l], "none")
                    ELSE IF LayerIndex(l) = FaultIndex(fault)
                    THEN LayerClose(clients[l], fault.at)
                    ELSE clients[l]]]

\* the flush loop at the end of process_message, seen from the clients
FlushClients(clients, flush_fault) ==
    [l \in NovaLayerSet |->
        IF flush_fault = 0 \/ LayerIndex(l) < flush_fault
        THEN [clients[l] EXCEPT !.producer = "flushed"]
        ELSE clients[l]]

\* main: what it leaves behind when it exits
MainCall(construct_fault, flush_fault, close_fault) ==
    LET built == NovaInit(construct_fault)
    IN  IF ~built.ok
        THEN \* line 352 raised; in the finally clause nova is not bound
             [pc |-> "exited", exc |-> "UnboundLocalError", closed_by_main |-> FALSE,
              clients |-> built.clients, finalized |-> {}]
        ELSE LET processed == FlushClients(built.clients, flush_fault)
                 closing == NovaClose(processed, close_fault)
             IN  [pc |-> "exited",
                  exc |-> IF closing.raised THEN "close failed"
                          ELSE IF flush_fault # 0 THEN "KafkaPublishError"
                          ELSE "none",
                  closed_by_main |-> TRUE,
                  clients |-> closing.clients, finalized |-> {}]

MainUnchanged ==
    UNCHANGED <<emotional_state, prediction_error, recent_errors, context_window,
                current_state, interaction_history, min_samples, learning_history,
                interaction_count, in_flight, producer, nodes, tasks>>

\* one run of main
Main(construct_fault, flush_fault, close_fault) ==
    /\ last.n < MaxMainRuns
    /\ construct_fault # NoFault => flush_fault = 0 /\ close_fault = NoFault
    /\ kafka' = MainCall(construct_fault, flush_fault, close_fault)
    /\ prev' = last
    /\ last' = [op |-> "main", bad |-> 0, n |-> last.n + 1,
                construct_fault |-> construct_fault,
                flush_fault |-> flush_fault,
                close_fault |-> close_fault]
    /\ MainUnchanged

\* NOVALayer.__del__ of a layer object that exists: close() inside
\* try/except; upto = 0: the flush raised, 1: the flush returned and the close
\* of the consumer raised or the consumer is missing, 2: both returned
LayerDel(layer, upto) ==
    /\ kafka.pc = "exited"
    /\ layer \notin kafka.finalized
    /\ kafka.clients[layer].producer # "none"
    /\ upto = 2 => kafka.clients[layer].consumer # "none"
    /\ kafka' = [kafka EXCEPT
                   !.finalized = @ \cup {layer},
                   !.clients[layer] =
                       IF upto = 0 THEN @
                       ELSE IF upto = 1 THEN [@ EXCEPT !.producer = "flushed"]
                       ELSE [producer |-> "flushed", consumer |-> "closed"]]
    /\ UNCHANGED <<last, prev>>
    /\ MainUnchanged

\* NOVA.__del__: close() with no try; it closes the first `closes` layers and
\* stops at the first call that raises or the first layer attribute missing
NovaDel(closes) ==
    /\ kafka.pc = "exited"
    /\ "nova" \notin kafka.finalized
    /\ \A l \in NovaLayerSet :
          LayerIndex(l) <= closes => kafka.clients[l].consumer # "none"
    /\ kafka' = [kafka EXCEPT
                   !.finalized = @ \cup {"nova"},
                   !.clients = [l \in NovaLayerSet |->
                                   IF LayerIndex(l) <= closes
                                   THEN LayerClose(kafka.clients[l], "none")
                                   ELSE kafka.clients[l]]]
    /\ UNCHANGED <<last, prev>>
    /\ MainUnchanged

NextMain ==
    \/ \E construct_fault \in ConstructFaults, flush_fault \in 0..Len(NovaLayers),
          close_fault \in CloseFaults :
          Main(construct_fault, flush_fault, close_fault)
    \/ \E layer \in NovaLayerSet, upto \in 0..2 : LayerDel(layer, upto)
    \/ \E closes \in 0..Len(NovaLayers) : NovaDel(closes)

SpecMain == Init /\ [][NextMain]_vars

-----------------------------------------------------------------------------
(* The predictive coding network of 01_predictive_coding.py (specification   *)
(* SpecNetwork): a PredictiveCodingNetwork is built from num_nodes and       *)
(* learning_rates (None when omitted) and process_input is called on it.     *)
(* Learning rates are in units of 1/Scale.                                   *)

MaxNetworkSteps == 3

DefaultNodeLearningRate == 100

NetworkSizes == 1..3
NetworkLearningRates == {None, <<100, 50, 20>>, <<500, 250>>}
NetworkInputs == {-1000, 300, 1000}

\* PredictiveCodingNode.__init__
PredictiveCodingNodeInit(learning_rate) ==
    [prediction |-> 0, learning_rate |-> learning_rate,
     prediction_history |-> <<>>, error_history |-> <<>>]

\* PredictiveCodingNode.update
NodeUpdate(node, actual_value) ==
    LET error == actual_value - node.prediction
        prediction == node.prediction
                        + RoundDiv(node.learning_rate * error, Scale)
    IN  [node |-> [node EXCEPT !.prediction = prediction,
                               !.prediction_history = Append(@, prediction),
                               !.error_history = Append(@, error)],
         prediction_error |-> error,
         prediction |-> prediction]

\* PredictiveCodingNetwork.__init__: one node per learning rate
PredictiveCodingNetworkInit(num_nodes, learning_rates) ==
    LET rates == IF learning_rates = None
                 THEN [i \in 1..num_nodes |-> DefaultNodeLearningRate]
                 ELSE learning_rates
    IN  [i \in 1..Len(rates) |-> PredictiveCodingNodeInit(rates[i])]

\* the loop of process_input from node i on
RECURSIVE ProcessInputFrom(_, _, _, _)
ProcessInputFrom(network, i, current_signal, errors) ==
    IF i > Len(network) THEN [nodes |-> network, errors |-> errors]
    ELSE LET updated == NodeUpdate(network[i], current_signal)
         IN  ProcessInputFrom([network EXCEPT ![i] = updated.node], i + 1,
                              Abs(updated.prediction_error),
                              Append(errors, updated.prediction_error))

\* PredictiveCodingNetwork.process_input
ProcessInput(network, input_value) == ProcessInputFrom(network, 1, input_value, <<>>)

InitNetwork ==
    /\ emotional_state = 0
    /\ prediction_error = 0
    /\ recent_errors = <<>>
    /\ context_window = <<>>
    /\ current_state = "building_rapport"
    /\ interaction_history = <<>>
    /\ min_samples = MinSamples
    /\ learning_history = NoLearningHistory
    /\ interaction_count = 0
    /\ in_flight = NoneInFlight
    /\ producer = NoProducerBacklog
    /\ tasks = NoTasks
    /\ kafka = NotStarted
    /\ \E num_nodes \in NetworkSizes, learning_rates \in NetworkLearningRates :
          /\ nodes = PredictiveCodingNetworkInit(num_nodes, learning_rates)
          /\ last = [op |-> "PredictiveCodingNetwork", bad |-> 0, n |-> 0,
                     num_nodes |-> num_nodes, learning_rates |-> learning_rates]
    /\ prev = NoCall

\* one call network.process_input(input_value)
NetworkStep(input_value) ==
    /\ last.n < MaxNetworkSteps
    /\ \E call \in {ProcessInput(nodes, input_value)} :
          /\ nodes' = call.nodes
          /\ prev' = last
          /\ last' = [op |-> "process_input", bad |-> 0, n |-> last.n + 1,
                      num_nodes |-> last.num_nodes,
                      learning_rates |-> last.learning_rates,
                      input_value |-> input_value,
                      before |-> nodes, errors |-> call.errors]
    /\ UNCHANGED <<emotional_state, prediction_error, recent_errors, context_window,
                   current_state, interaction_history, min_samples, learning_history,
                   interaction_count, in_flight, producer, tasks, kafka>>

NextNetwork == \E input_value \in NetworkInputs : NetworkStep(input_value)

SpecNetwork == InitNetwork /\ [][NextNetwork]_vars

-----------------------------------------------------------------------------
(* Properties of one VirtualHuman (specification Spec) *)

IsTick == last.op = "process_interaction"

\* the last tick passed validation, so its layer steps were entered
ValidTick == IsTick /\ last.value \notin InvalidValues

DefaultResponse == "Let's continue our discussion."

\* C1 (as claimed): a layer whose step raised during the last tick holds the
\* state it held before the tick - Reactive: emotional_state, prediction_error,
\* recent_errors; Responsive: context_window, current_state; Reflective:
\* interaction_history.
C1_FailedLayerStateUnchanged ==
    ValidTick =>
        /\ last.rfault # 0 => LayersNow.reactive = last.before.reactive
        /\ last.sfault # 0 => LayersNow.responsive = last.before.responsive
        /\ last.lfault # 0 => LayersNow.reflective = last.before.reflective

\* C2: when exactly one layer's step raised in the last tick, the tick returned
\* an aggregate built by the normal path; the failed layer's slot is its
\* fallback (Reactive: the estimate held before the tick, error 0, base rate;
\* Responsive: building_rapport, the default response, the Reactive estimate as
\* prediction; Reflective: stage "error", confidence 0) and the other two slots
\* are what those layers computed and stored in this tick.
C2_FailureIsolated ==
    (ValidTick /\ <<last.rfault, last.sfault, last.lfault>> # <<0, 0, 0>>) =>
        /\ last.outcome.kind = "return"
        /\ ~last.outcome.fallback
        /\ last.calls = <<"reactive", "responsive", "reflective">>
        /\ LET res == last.outcome.value
               b == last.before
           IN  /\ res.interaction_number = interaction_count
               /\ last.rfault # 0 =>
                    /\ res.reactive.emotion = b.reactive.emotional_state
                    /\ res.reactive.prediction_error = 0
                    /\ res.reactive.learning_rate = BaseLearningRate * Scale
               /\ last.rfault = 0 =>
                    /\ res.reactive.prediction_error =
                           last.value.v - b.reactive.emotional_state
                    /\ res.reactive.prediction_error = prediction_error
                    /\ res.reactive.emotion = emotional_state
                    /\ recent_errors # b.reactive.recent_errors
               /\ last.sfault # 0 =>
                    /\ res.responsive.state = "building_rapport"
                    /\ res.responsive.response = DefaultResponse
                    /\ res.responsive.predicted_next = res.reactive.emotion
               /\ last.sfault = 0 =>
                    /\ res.responsive.state = current_state
                    /\ \E i \in 1..Len(Responses(current_state)) :
                          res.responsive.response = Responses(current_state)[i]
                    /\ Len(context_window) = Len(b.responsive.context_window) + 1
                    /\ context_window[Len(context_window)].value = last.value.v
                    /\ res.responsive.context_confidence = 100 * Len(context_window)
               /\ last.lfault # 0 =>
                    /\ res.reflective.progress.stage = "error"
                    /\ res.reflective.confidence = 0
                    /\ res.reflective.strategy.text = "Maintaining basic interaction patterns."
               /\ last.lfault = 0 =>
                    /\ res.reflective.progress.stage # "error"
                    /\ Len(interaction_history) = Len(b.reflective.interaction_history) + 1
                    /\ res.reflective.history_length = Len(interaction_history)
                    /\ interaction_history[Len(interaction_history)].reactive = res.reactive
                    /\ interaction_history[Len(interaction_history)].responsive = res.responsive

\* C2 witness: a second tick in which only the Responsive step raised
C2_Witness ==
    /\ ValidTick
    /\ last.sfault = 254
    /\ interaction_count = 2
    /\ last.outcome.value.reactive.prediction_error # 0

\* C3: a tick whose value is outside [-1, 1], NaN or an infinity enters no
\* layer step and leaves every layer's state as it was before the tick.
C3_InvalidRejectedBeforeLayers ==
    (IsTick /\ last.value \in InvalidValues) =>
        /\ last.calls = <<>>
        /\ LayersNow = last.before

\* C3 witness: NaN given to a VirtualHuman whose layers hold state of an earlier tick
C3_Witness ==
    /\ IsTick
    /\ last.value = NaN
    /\ context_window # <<>>
    /\ emotional_state # 0

C5_EstimatesInRange ==
    /\ -Scale <= emotional_state /\ emotional_state <= Scale
    /\ IsTick =>
         LET res == last.outcome.value
         IN  /\ -Scale <= res.reactive.emotion /\ res.reactive.emotion <= Scale
             /\ -Scale <= res.responsive.predicted_next
             /\ res.responsive.predicted_next <= Scale

\* C5 witness: two ticks of value -1 have pulled both estimates towards -1
C5_Witness ==
    /\ ValidTick
    /\ interaction_count >= 2
    /\ emotional_state < -400
    /\ last.outcome.value.responsive.predicted_next < -800

\* C5 for the demo variant (specification SpecDemo): the Reactive estimate
\* and the predicted_next a tick reports are within [-1, 1].
C5_DemoEstimatesInRange ==
    /\ -Scale <= emotional_state /\ emotional_state <= Scale
    /\ last.op = "demo" =>
         /\ -Scale <= last.outcome.responsive.predicted_next
         /\ last.outcome.responsive.predicted_next <= Scale

\* the tick's Reflective step was entered and got as far as storing its record
ReflectiveStored ==
    /\ ValidTick
    /\ last.calls = <<"reactive", "responsive", "reflective">>
    /\ last.lfault # 315

-----------------------------------------------------------------------------
(* Properties of the ReactiveLayer (specification SpecReactive) *)

\* the last two calls of process_signal were given the same observation
SameObservationTwice ==
    /\ last.op = "process_signal"
    /\ prev.op = "process_signal"
    /\ last.value = prev.value

\* 0 < rate < 2
RateInOpenInterval(rate) == 0 < rate /\ rate < 2 * Scale * Scale

\* C6 (as claimed): the same observation twice in a row, with rates in (0, 2):
\* the absolute prediction error of the second call is strictly smaller than
\* that of the first.
C6_StrictDecrease ==
    (SameObservationTwice /\ RateInOpenInterval(prev.out.learning_rate)
                          /\ RateInOpenInterval(last.out.learning_rate)) =>
        Abs(last.out.prediction_error) < Abs(prev.out.prediction_error)

\* C6 (amended): the absolute error of the second call is never greater than
\* that of the first, and strictly smaller whenever the first call changed the
\* stored estimate; each error is the observation minus the estimate held
\* before that call.
C6_DecreaseWhenMoved ==
    SameObservationTwice =>
        /\ RateInOpenInterval(prev.out.learning_rate)
        /\ RateInOpenInterval(last.out.learning_rate)
        /\ prev.out.prediction_error = prev.value - prev.before.emotional_state
        /\ last.out.prediction_error = last.value - last.before.emotional_state
        /\ Abs(last.out.prediction_error) <= Abs(prev.out.prediction_error)
        /\ last.before.emotional_state # prev.before.emotional_state =>
               Abs(last.out.prediction_error) < Abs(prev.out.prediction_error)

\* C6 witness: a constant signal whose error shrinks but has not vanished
C6_Witness ==
    /\ SameObservationTwice
    /\ last.out.prediction_error # 0
    /\ Abs(last.out.prediction_error) < Abs(prev.out.prediction_error)

\* C7: the rate process_signal uses is base_rate * (1 + std(recent_errors)) of
\* the error buffer as it stands when the rate is computed, which is base_rate
\* for a unit with no earlier error; of two consecutive calls the one whose
\* buffer has the higher standard deviation uses the strictly greater rate; a
\* fresh unit (estimate 0, base rate 0.3) given 0.8 has error 0.8, uses rate
\* 0.3 and ends at estimate 0.24.
C7_AdaptiveRate ==
    last.op = "process_signal" =>
        LET rate == last.out.learning_rate
            n == Len(recent_errors)
            spread == n * SumSq(recent_errors) - Sum(recent_errors) * Sum(recent_errors)
            std == rate \div BaseLearningRate - Scale
        IN  /\ rate = BaseLearningRate * (Scale + NpStd(recent_errors))
            /\ rate = BaseLearningRate * (Scale + std)
            /\ std >= 0
            \* std is sqrt(spread) / n up to the rounding of the number format
            /\ (n * std + n) * (n * std + n) >= spread
            /\ std <= 1 \/ (n * std - n) * (n * std - n) <= spread
            /\ last.before.recent_errors = <<>> => rate = BaseLearningRate * Scale
            /\ (prev.op = "process_signal"
                  /\ NpStd(recent_errors) > NpStd(last.before.recent_errors)) =>
                 rate > prev.out.learning_rate
            /\ (last.before.emotional_state = 0 /\ last.before.recent_errors = <<>>
                  /\ last.value = 800) =>
                 /\ last.out.prediction_error = 800
                 /\ rate = 300 * Scale
                 /\ emotional_state = 240

\* C7 witness: the fresh unit given 0.8 (rate 0.3, estimate 0.24), then a call
\* whose error widens the buffer's spread and raises the rate
C7_Witness ==
    /\ last.op = "process_signal"
    /\ prev.op = "process_signal"
    /\ prev.before.emotional_state = 0
    /\ prev.before.recent_errors = <<>>
    /\ prev.value = 800
    /\ prev.out.learning_rate = 300 * Scale
    /\ last.before.emotional_state = 240
    /\ NpStd(recent_errors) > NpStd(last.before.recent_errors)
    /\ last.out.learning_rate > prev.out.learning_rate

-----------------------------------------------------------------------------
(* Properties of the context window (specification SpecWindow) *)

\* the signals of all ticks so far, in tick order, as the Reflective history holds them
SignalsSoFar == [i \in 1..Len(interaction_history) |-> interaction_history[i].signal]

\* C8: the context window holds at most ContextWindowSize signals, namely the
\* most recent min(n, ContextWindowSize) of the n signals pushed, in arrival
\* order; after ContextWindowSize + 1 pushes the earliest signal is gone.
C8_SlidingWindow ==
    LET n == Len(SignalsSoFar)
        held == Len(context_window)
    IN  /\ held <= ContextWindowSize
        /\ held = Min(n, ContextWindowSize)
        /\ \A i \in 1..held : context_window[i] = SignalsSoFar[n - held + i]
        /\ \A j \in 1..(n - ContextWindowSize) :
              \A i \in 1..held : context_window[i] # SignalsSoFar[j]
        /\ n > ContextWindowSize =>
              \A i \in 1..held : context_window[i].interaction_number # 1

\* C8 witness: one push more than the window holds; the second signal is now the oldest
C8_Witness ==
    /\ interaction_count = ContextWindowSize + 1
    /\ Len(context_window) = ContextWindowSize
    /\ context_window[1].interaction_number = 2

\* the window holds ten signals, all of value 0.6
TenSteadySignals ==
    /\ ContextWindowSize = 10
    /\ Len(context_window) = 10
    /\ \A i \in 1..10 : context_window[i].value = 600

\* C10 (as claimed): after ten signals of value 0.6 the classified state is FlowState.
C10_SteadyIsFlow ==
    TenSteadySignals => current_state = "flow_state"

\* C10 (amended): after ten signals of value 0.6 the mean is 0.6 and the
\* volatility 0, and the classified state is DeepeningInteraction: the flow
\* rule needs a mean strictly above 0.6.
C10_SteadyIsDeepening ==
    TenSteadySignals =>
        /\ NpMean(ValuesOf(context_window)) = 600
        /\ NpStd(ValuesOf(context_window)) = 0
        /\ current_state = "deepening_interaction"
        /\ IsTick => last.outcome.value.responsive.state = "deepening_interaction"

\* C10 witness: the tenth tick of ten ticks of value 0.6
C10_Witness ==
    /\ TenSteadySignals
    /\ interaction_count = 10
    /\ current_state = "deepening_interaction"

-----------------------------------------------------------------------------
(* Properties of the decision table (specification SpecClassify) *)

\* C9: with at least 3 samples, statistics that satisfy both the momentum rule
\* (|momentum| > 0.5) and the flow rule (mean > 0.6, volatility < 0.2) are
\* classified EmotionalTransition.
C9_MomentumBeforeFlow ==
    (last.op = "classified" /\ last.size >= 3
        /\ Abs(last.momentum) > 500
        /\ last.trend > 600 /\ last.volatility < 200) =>
        current_state = "emotional_transition"

\* C9 witness: classified statistics that satisfy both rules
C9_Witness ==
    /\ last.op = "classified"
    /\ last.size = 3
    /\ last.momentum = -501
    /\ last.trend = 601
    /\ last.volatility = 199
    /\ current_state = "emotional_transition"

-----------------------------------------------------------------------------
(* Properties of the ResponsiveLayer (specification SpecContext) *)

\* the seven rules, each with the rules above it excluded
DecisionTable(size, momentum, mean, volatility) ==
    LET r1 == size < 3
        r2 == Abs(momentum) > 500
        r3 == mean > 600 /\ volatility < 200
        r4 == volatility > 400
        r5 == mean > 300 /\ volatility < 300
        r6 == mean < -200
    IN  CHOOSE state \in InteractionState :
          /\ r1 => state = "building_rapport"
          /\ (~r1 /\ r2) => state = "emotional_transition"
          /\ (~r1 /\ ~r2 /\ r3) => state = "flow_state"
          /\ (~r1 /\ ~r2 /\ ~r3 /\ r4 /\ Abs(mean) < 200) => state = "recalibrating"
          /\ (~r1 /\ ~r2 /\ ~r3 /\ r4 /\ Abs(mean) >= 200) => state = "recovering_attention"
          /\ (~r1 /\ ~r2 /\ ~r3 /\ ~r4 /\ r5) => state = "deepening_interaction"
          /\ (~r1 /\ ~r2 /\ ~r3 /\ ~r4 /\ ~r5 /\ r6) => state = "recovering_attention"
          /\ (~r1 /\ ~r2 /\ ~r3 /\ ~r4 /\ ~r5 /\ ~r6) => state = "maintaining_engagement"

\* the value of the k-th newest signal of the window (0 where there is none)
Newest(k) ==
    IF Len(context_window) >= k THEN context_window[Len(context_window) - k + 1].value ELSE 0

\* momentum of a tracker that starts at 0 and is fed the three newest values:
\* 0.7 * (0.3 * (b - a)) + 0.3 * (c - b)
MomentumOfNewestThree ==
    RoundDiv(7 * RoundDiv(3 * (Newest(2) - Newest(3)), 10) + 3 * (Newest(1) - Newest(2)), 10)

\* population standard deviation and mean of the three newest values
VolatilityOfNewestThree == NpStd(<<Newest(3), Newest(2), Newest(1)>>)
MeanOfNewestThree == NpMean(<<Newest(3), Newest(2), Newest(1)>>)

\* mean of all the values the window holds
MeanOfWindow ==
    IF context_window = <<>> THEN 0 ELSE NpMean(ValuesOf(context_window))

\* the last call of process_context got past line 252: the classifier returned
\* and its state was stored
Classified == last.op = "process_context" /\ last.fault \notin {246, 252}

\* C11 as stated: after process_context the stored and the reported state are
\* the seven-rule table on the window's size, the momentum and volatility of
\* its three newest values and the mean of ALL the values the window holds.
C11_TableOnWindowMean ==
    Classified =>
        /\ current_state = DecisionTable(Len(context_window), MomentumOfNewestThree,
                                         MeanOfWindow, VolatilityOfNewestThree)
        /\ last.fault = 0 => last.out.state = current_state

\* C11 amended: the same, with the mean of the three newest values of the
\* window in place of the mean of the whole window.
C11_TableOnNewestThree ==
    Classified =>
        /\ current_state = DecisionTable(Len(context_window), MomentumOfNewestThree,
                                         MeanOfNewestThree, VolatilityOfNewestThree)
        /\ last.fault = 0 => last.out.state = current_state

\* C11 witness: a window of four signals whose newest three are steady at 1
\* while the mean of all four is 0.5: the state is FlowState
C11_Witness ==
    /\ Classified
    /\ last.fault = 0
    /\ ValuesOf(context_window) = <<-1000, 1000, 1000, 1000>>
    /\ MeanOfWindow = 500
    /\ current_state = "flow_state"


\* the candidate strings of a state
Candidates(state) == {Responses(state)[i] : i \in 1..Len(Responses(state))}

\* the call of process_context that `last` records, made again from the same
\* layer state with candidate p drawn instead
SameCallDrawing(p) ==
    ProcessContext(last.before, [value |-> last.value],
                   [emotion |-> last.emotion, prediction_error |-> 0], last.fault, p)

\* whichever candidate is drawn, the layer ends in the same state and the
\* result has the same state, predicted_next and context_confidence
DrawChangesTextOnly ==
    \A p \in 1..Len(Responses(last.out.state)) :
        /\ SameCallDrawing(p).state = LayersNow.responsive
        /\ SameCallDrawing(p).out.state = last.out.state
        /\ SameCallDrawing(p).out.predicted_next = last.out.predicted_next
        /\ SameCallDrawing(p).out.context_confidence = last.out.context_confidence

\* C19 as stated: in every result of process_context the response is one of
\* the candidates of the state in the same result, and the draw changes the
\* response only.
C19_ResponseAmongCandidates ==
    last.op = "process_context" =>
        /\ last.out.response \in Candidates(last.out.state)
        /\ DrawChangesTextOnly

\* C19 amended: that holds for every result of the normal path; the result
\* of the except clause carries state building_rapport with the fixed sentence
\* "Let's continue our discussion.", which is none of that state's candidates.
C19_ResponseAmongCandidatesUnlessFallback ==
    last.op = "process_context" =>
        /\ DrawChangesTextOnly
        /\ IF last.fault = 0
           THEN /\ last.out.response \in Candidates(last.out.state)
                /\ last.out.state = current_state
           ELSE /\ last.out.state = "building_rapport"
                /\ last.out.response = DefaultResponse
                /\ last.out.response \notin Candidates(last.out.state)
                /\ last.out.predicted_next = last.emotion
                /\ last.out.context_confidence = 500

\* C19 witness: the fourth candidate of FlowState was drawn
C19_Witness ==
    /\ last.op = "process_context"
    /\ last.fault = 0
    /\ last.pick = 4
    /\ last.out.state = "flow_state"
    /\ last.out.response = "Love how we're vibing with this material!"

-----------------------------------------------------------------------------
(* Properties of the ReflectiveLayer and of LearningHistory (specification    *)
(* SpecReflective)                                                            *)

\* C12: no ReflectiveLayer and no LearningHistory exists with min_samples
\* below 5, and a LearningHistory constructor given less than 5 raises.
C12_SmallMinSamplesRejected ==
    /\ min_samples >= 5
    /\ learning_history.made => learning_history.min_samples >= 5
    /\ (last.op = "LearningHistory" /\ last.min_samples < 5) => last.raised

\* the last call was analyze_patterns; it returned from its normal path
IsAnalysisCall == last.op = "analyze_patterns"
IsAnalysis == IsAnalysisCall /\ last.fault = 0

\* C13: after a call of analyze_patterns that did not raise and leaves fewer than min_samples
\* records, the output is the "N more samples needed" state with
\* N = min_samples - history length >= 1 and carries no statistics; from the
\* call that brings the history to min_samples records on, it carries them.
C13_NeededUntilMinSamples ==
    IsAnalysis =>
        IF Len(interaction_history) < min_samples
        THEN /\ last.out.strategy.text = "Building understanding... (N more samples needed)"
             /\ last.out.strategy.needed = min_samples - Len(interaction_history)
             /\ last.out.strategy.needed >= 1
             /\ last.out.progress = [stage |-> "initial", confidence |-> 0,
                                     stability |-> "unknown"]
             /\ last.out.confidence = 0
        ELSE /\ last.out.strategy.text # "Building understanding... (N more samples needed)"
             /\ last.out.progress.stage \in {"developing", "advanced"}
             /\ last.out.progress.stability \in {"stable", "volatile"}
             /\ last.out.confidence =
                  Max(0, Scale - NpStd([i \in 1..Len(LastN(interaction_history, min_samples)) |->
                           LastN(interaction_history, min_samples)[i].reactive.prediction_error]))

\* C13 witness: min_samples = 3 and two records fed: one more sample needed
C13_Witness ==
    /\ IsAnalysis
    /\ min_samples = 3
    /\ Len(interaction_history) = 2
    /\ last.out.strategy.needed = 1
    /\ last.out.progress.stage = "initial"

-----------------------------------------------------------------------------
(* Properties of calls in progress (specification SpecThreads) *)

\* C14: in every call the Responsive step starts only when the Reactive step
\* has returned and is given that call's signal and Reactive output; the
\* Reflective step starts only when the Responsive step has returned and stores
\* that call's signal, Reactive output and Responsive output; a call is inside
\* one layer step at a time.
C14_StrictPipeline ==
    /\ \A c \in Callers :
         LET f == in_flight[c]
         IN  /\ f.pc = "reactive" =>
                  /\ f.signal # Unset
                  /\ f.reactive_output = Unset
                  /\ f.responsive_output = Unset
                  /\ f.reflective_output = Unset
             /\ f.pc = "responsive" =>
                  /\ f.reactive_output # Unset
                  /\ f.responsive_output = Unset
                  /\ f.reflective_output = Unset
             /\ f.pc = "reflective" =>
                  /\ f.reactive_output # Unset
                  /\ f.responsive_output # Unset
                  /\ f.reflective_output = Unset
             /\ f.pc = "return" =>
                  /\ f.reactive_output # Unset
                  /\ f.responsive_output # Unset
                  /\ f.reflective_output # Unset
    /\ (last.op = "layer_step" /\ last.layer = "responsive") =>
         /\ last.given.pc = "responsive"
         /\ context_window[Len(context_window)].interaction_number
              = last.given.signal.interaction_number
    /\ (last.op = "layer_step" /\ last.layer = "reflective") =>
         /\ last.given.pc = "reflective"
         /\ interaction_history[Len(interaction_history)] =
              [signal |-> last.given.signal,
               reactive |-> last.given.reactive_output,
               responsive |-> last.given.responsive_output]

\* C14 witness: caller 1 is in its Reflective step, its two faster steps
\* returned, while caller 2 is in its Responsive step
C14_Witness ==
    /\ in_flight[1].pc = "reflective"
    /\ in_flight[1].responsive_output # Unset
    /\ in_flight[2].pc = "responsive"
    /\ last.op = "layer_step"

\* C15: no layer step of one call runs while another call on the same
\* VirtualHuman is in progress.
C15_NoInterleaving ==
    last.op = "layer_step" => last.concurrent = {}

-----------------------------------------------------------------------------
(* Properties of NOVA (specification SpecNova) *)

IsMessage == last.op = "process_message"

\* what a layer that did not fail puts in its slot
OwnResult(layer) ==
    LET content == IF "content" \in DOMAIN last.message THEN last.message.content ELSE ""
    IN  CASE layer = "reactive" ->
               [type |-> "reactive_response",
                content |-> <<"Quick acknowledgment: ", content>>,
                processing_duration |-> 50]
          [] layer = "responsive" ->
               [type |-> "responsive_response",
                content |-> <<"Thoughtful response to: ", content>>,
                context |-> "user_interaction",
                processing_duration |-> 200]
          [] layer = "reflective" ->
               [type |-> "reflective_update",
                pattern |-> "user_interaction_pattern",
                learning |-> <<"Learned from: ", content>>,
                processing_duration |-> 400]

\* C17: when layers' process raised and no flush did, process_message returns;
\* in the result every failed layer's slot is None and every other slot is
\* that layer's own result - in particular when exactly one layer failed.
C17_LayerFailureIsolated ==
    (IsMessage /\ last.failing # {} /\ last.flush_fault = 0) =>
        /\ last.outcome.kind = "return"
        /\ \A l \in NovaLayerSet :
              last.outcome.value[l] = (IF l \in last.failing THEN None ELSE OwnResult(l))

\* C17 witness: only the Responsive layer's process raised
C17_Witness ==
    /\ IsMessage
    /\ last.failing = {"responsive"}
    /\ last.flush_fault = 0
    /\ last.outcome.kind = "return"
    /\ last.outcome.value["responsive"] = None
    /\ last.outcome.value["reactive"].type = "reactive_response"
    /\ last.outcome.value["reflective"].type = "reflective_update"

\* C18 as stated: whatever publish and flush do, no call fails on their
\* account: process_message returns the per-layer results and publish returns.
C18_BusFailureOnlyLogged ==
    /\ IsMessage =>
         /\ last.outcome.kind = "return"
         /\ \A l \in NovaLayerSet :
               last.outcome.value[l] = (IF l \in last.failing THEN None ELSE OwnResult(l))
    /\ last.op = "publish" => last.outcome.kind = "return"

\* C18 amended: a failing flush or produce is logged and then raised as
\* KafkaPublishError: process_message returns the per-layer results exactly
\* when no flush raised, and publish returns exactly when produce did not raise;
\* a failed call has logged the failure.
C18_BusFailureRaised ==
    /\ IsMessage =>
         IF last.flush_fault = 0
         THEN /\ last.outcome.kind = "return"
              /\ \A l \in NovaLayerSet :
                    last.outcome.value[l] = (IF l \in last.failing THEN None ELSE OwnResult(l))
              /\ \A l \in NovaLayerSet : producer[l] = 0
         ELSE /\ last.outcome.kind = "raise"
              /\ last.outcome.value = "KafkaPublishError"
              /\ last.outcome.logged[Len(last.outcome.logged)] = "Failed to flush producers"
    /\ last.op = "publish" =>
         IF last.fails
         THEN /\ last.outcome.kind = "raise"
              /\ last.outcome.value = "KafkaPublishError"
              /\ last.outcome.logged = <<"Failed to publish message to Kafka">>
              /\ producer = last.before
         ELSE /\ last.outcome.kind = "return"
              /\ producer[last.layer] = last.before[last.layer] + 1

\* C18 witness: all three layers completed, the second producer's flush
\* raised with a message waiting in it, and the call raised
C18_Witness ==
    /\ IsMessage
    /\ last.failing = {}
    /\ last.flush_fault = 2
    /\ last.before["responsive"] = 1
    /\ last.outcome.kind = "raise"

\* the Reactive errors of the records the analysis looks at
RecentErrors ==
    LET recent == LastN(interaction_history, min_samples)
    IN  [i \in 1..Len(recent) |-> recent[i].reactive.prediction_error]

\* the kind of strategy a strategy sentence of analyze_patterns stands for
StrategyKind(text) ==
    CASE text = "Maintaining successful interaction patterns." -> "maintain"
      [] text = "Adjusting approach to improve stability." -> "adjust"
      [] OTHER -> "none"

\* C20, for a layer constructed with the default min_samples: once the history
\* holds min_samples records, a stable history with a positive mean of the
\* recent errors gets the consolidate strategy, a stable history with a
\* negative mean gets the maintain strategy, and a volatile history gets the
\* adjust strategy.
C20_StrategyByTrendSign ==
    (IsAnalysis /\ min_samples = MinSamples /\ Len(interaction_history) >= min_samples) =>
        LET volatility == IF Len(RecentErrors) < 2 THEN 0 ELSE NpStd(RecentErrors)
            trend == NpMean(RecentErrors)
            kind == StrategyKind(last.out.strategy.text)
        IN  /\ (volatility < VolatilityThreshold /\ trend > 0) => kind = "consolidate"
            /\ (volatility < VolatilityThreshold /\ trend < 0) => kind = "maintain"
            /\ volatility >= VolatilityThreshold => kind = "adjust"

\* C21: the confidence a call of analyze_patterns reports is within [0, 1];
\* it is max(0, 1 - volatility) of the recent errors once min_samples records
\* are stored, and 0 before that and in the result of the except clause.
C21_ConfidenceInUnitRange ==
    IsAnalysisCall =>
        /\ 0 <= last.out.confidence /\ last.out.confidence <= Scale
        /\ last.out.progress.confidence = last.out.confidence
        /\ IF last.fault # 0 \/ Len(interaction_history) < min_samples
           THEN last.out.confidence = 0
           ELSE last.out.confidence =
                  (LET volatility == IF Len(RecentErrors) < 2 THEN 0
                                     ELSE NpStd(RecentErrors)
                   IN  IF volatility > Scale THEN 0 ELSE Scale - volatility)

\* C21 witness: enough samples, a volatility above 1, confidence 0
C21_Witness ==
    /\ IsAnalysis
    /\ min_samples = 3
    /\ Len(interaction_history) >= 3
    /\ NpStd(RecentErrors) > Scale
    /\ last.out.confidence = 0
    /\ last.out.progress.stability = "volatile"

-----------------------------------------------------------------------------
(* Properties of the Reactive error buffer (specification SpecWindow) *)

\* C25: the Reactive buffer recent_errors never holds more than memory_size
\* errors; it holds the prediction errors of the most recent ticks, oldest
\* first; a successful tick appends its own error and, when the buffer was
\* full, drops exactly the oldest one.
C25_BoundedErrorFifo ==
    LET errors == ErrorsOf(interaction_history)
        n == Len(errors)
        held == Len(recent_errors)
    IN  /\ held <= MemorySize
        /\ held = Min(n, MemorySize)
        /\ \A i \in 1..held : recent_errors[i] = errors[n - held + i]
        /\ IsTick =>
             LET before == last.before.reactive.recent_errors
                 dropped == IF Len(before) < MemorySize THEN 0 ELSE 1
             IN  /\ held = Len(before) + 1 - dropped
                 /\ recent_errors[held] = last.outcome.value.reactive.prediction_error
                 /\ recent_errors[held] = prediction_error
                 /\ \A i \in 1..(held - 1) : recent_errors[i] = before[i + dropped]

\* C25 witness: the seventh tick pushed onto a full buffer, which now starts
\* with the error of the third tick
C25_Witness ==
    /\ IsTick
    /\ interaction_count = MemorySize + 2
    /\ Len(last.before.reactive.recent_errors) = MemorySize
    /\ Len(recent_errors) = MemorySize
    /\ recent_errors[1] = interaction_history[3].reactive.prediction_error
    /\ recent_errors[1] # last.before.reactive.recent_errors[1]

-----------------------------------------------------------------------------
(* Properties of the predictive coding network (specification SpecNetwork) *)

\* one error per node; node 1 was updated with the input and node i + 1 with
\* the absolute error of node i; each error is the node's signal minus the
\* prediction it held before the call; each node moved by its rate
ErrorsPerLevel ==
    last.op = "process_input" =>
        /\ Len(last.errors) = Len(nodes)
        /\ Len(nodes) = Len(last.before)
        /\ \A i \in 1..Len(nodes) :
              LET signal == IF i = 1 THEN last.input_value
                            ELSE Abs(last.errors[i - 1])
              IN  /\ last.errors[i] = signal - last.before[i].prediction
                  /\ nodes[i].prediction = last.before[i].prediction
                       + RoundDiv(nodes[i].learning_rate * last.errors[i], Scale)
                  /\ Len(nodes[i].error_history) = last.n
                  /\ nodes[i].error_history[last.n] = last.errors[i]

\* C24 (as claimed): a network built with num_nodes has exactly num_nodes
\* nodes, and process_input returns one error per level, level 1 updated with
\* the input and every higher level with the absolute error of the level
\* below, each error being the level's signal minus its earlier prediction.
C24_NumNodesLevels ==
    /\ Len(nodes) = last.num_nodes
    /\ last.op = "process_input" => Len(last.errors) = last.num_nodes
    /\ ErrorsPerLevel

-----------------------------------------------------------------------------
(* Properties of LearningHistory (specification SpecLearning) *)

\* C23 (as claimed): is_stable never raises and returns a boolean: False
\* while the history holds fewer than min_samples entries; otherwise
\* calculate_statistics returned a (mean, std_dev) pair and is_stable returned
\* True exactly when std_dev / mean is below volatility_threshold.
C23_IsStableTotal ==
    last.op = "is_stable" =>
        /\ ~last.outcome.raised
        /\ last.outcome.value \in BOOLEAN
        /\ IF Len(learning_history.history) < learning_history.min_samples
           THEN last.outcome.value = FALSE
           ELSE LET statistics == CalculateStatistics(learning_history)
                IN  /\ statistics # None
                    /\ statistics.mean # None /\ statistics.std_dev # None
                    /\ last.outcome.value =
                         (RoundDiv(statistics.std_dev * Scale, statistics.mean)
                            < learning_history.volatility_threshold)

\* is_stable returns False while the history is shorter than min_samples
IsStableFalseWhenShort ==
    (/\ last.op = "is_stable"
     /\ Len(learning_history.history) < learning_history.min_samples)
        => /\ ~last.outcome.raised
           /\ last.outcome.value = FALSE

-----------------------------------------------------------------------------
(* Properties of process_message step by step (specification SpecAwait) *)

\* C22 (as claimed): the three layers process a message in parallel - no
\* layer's step has finished while another layer's step has not started.
C22_AllStartedBeforeAnyFinished ==
    tasks.made =>
        \A a, b \in NovaLayerSet :
            tasks.coro[a] = "done" => tasks.coro[b] # "created"

\* the steps run one after another: a layer starts when the layer before it
\* has ended, and the call takes the sum of the three sleeps
StepsInSequence ==
    tasks.made =>
        /\ Cardinality({l \in NovaLayerSet : tasks.coro[l] = "sleeping"}) <= 1
        /\ \A i \in 2..Len(NovaLayers) :
              tasks.start_time[NovaLayers[i]] # Unset =>
                  tasks.start_time[NovaLayers[i]] = tasks.end_time[NovaLayers[i - 1]]
        /\ tasks.pc \in {"flush", "returned", "raised"} =>
              tasks.clock = LayerSleep("reactive") + LayerSleep("responsive")
                              + LayerSleep("reflective")

-----------------------------------------------------------------------------
(* Properties of main (specification SpecMain) *)

\* every producer that was created is flushed and every consumer closed
Released(clients) ==
    \A l \in NovaLayerSet :
        /\ clients[l].producer \in {"none", "flushed"}
        /\ clients[l].consumer \in {"none", "closed"}

\* C26 (as claimed): when main has exited - normally, after process_message
\* raised, after the construction of NOVA or of one layer failed, or after a
\* layer's close raised - every layer's producer is flushed and its consumer
\* closed.
C26_ReleasedOnEveryExit ==
    kafka.pc = "exited" => Released(kafka.clients)

\* main releases everything when neither the construction nor a close raises
ReleasedWithoutThoseFaults ==
    (/\ last.op = "main"
     /\ last.construct_fault = NoFault
     /\ last.close_fault = NoFault)
        => Released(kafka.clients)

====
